---- MODULE Spec2Model ----
(***************************************************************************)
(* The KOOK gateway monitor of extensions/kook: connectWebSocket, its      *)
(* connect / scheduleReconnect loop, and the socket and timer callbacks    *)
(* of one connection (src/extensions/kook/src/kook/probe.ts, 360-582).     *)
(*                                                                         *)
(* One supervisor run is one call of connectWebSocket.  Every socket the   *)
(* run creates keeps its own closure (ws, heartbeatTimer, helloTimer,      *)
(* resolved); sn, sessionId and reconnectAttempt are shared by all of      *)
(* them.  Every callback runs to completion, so each is one action.       *)
(*                                                                         *)
(* The Event case of the message handler hands the events it admits to     *)
(* handleKookMessage (src/extensions/kook/src/bot.ts) without awaiting it. *)
(* Spec follows the monitor and records every hand-over in dispatchOut;    *)
(* SpecBot follows what handleKookMessage does with the events handed      *)
(* over: the policy gate, the pending history map and the dispatches in    *)
(* flight.  SpecEntry starts one step earlier, at monitorKookProvider.     *)
(***************************************************************************)
EXTENDS Integers, Sequences, FiniteSets, Bags, TLC

\* ---- bounds of the model ----
MaxConn == 2        \* sockets created in one supervisor run
MaxSn == 1          \* frame.sn ranges over 0..MaxSn
MaxTickers == 2     \* heartbeat intervals armed for one socket
MaxAttemptN == 12   \* attempt numbers drawn by SpecBackoff
MaxLimit == 2       \* the largest cfg.messages.groupChat.historyLimit drawn
MaxTasks == 1       \* calls of handleKookMessage awaiting dispatchReplyFromConfig
MaxPending == 2     \* the same, in SpecSession
MaxSends == 2       \* calls of sendMessageKook awaiting the answer of their REST call
MaxChunks == 2      \* chunks of one reply text

\* ---- program constants ----
HEARTBEAT_INTERVAL_MS == 30000
HELLO_TIMEOUT_MS == 6000
RECONNECT_BASE_MS == 2000
MAX_RECONNECT_WAIT_MS == 60000

SessionIds == {"s1", "s2"}
NoSid == "undefined"      \* frame.d.session_id absent: `??` keeps the old value
BotIds == {"bot", "undefined"}

VARIABLES
    pc,                \* where the supervisor's promise chain stands
    aborted,           \* abortSignal.aborted
    botId,             \* const botId of connectWebSocket ("undefined": probe failed)
    probes,            \* calls of fetchBotId so far
    sn,                \* let sn
    sessionId,         \* let sessionId
    reconnectAttempt,  \* let reconnectAttempt
    waitMs,            \* const waitMs of the scheduleReconnect in progress (0: none)
    gwFetches,         \* calls of getGateway so far
    nconn,             \* sockets created so far; the last one is the current one
    conns,             \* the closure of every socket created
    lastExit,          \* the callback that took the latest connection outcome
                       \* (for handleAbort, with the phase it found)
    pingOut,           \* sn of the Ping the last step sent (-1: it sent none)
    account,           \* the ResolvedKookAccount the run is for
    dispatchOut,       \* the events the last step called handleKookMessage with
    cfg,               \* the configuration handleKookMessage resolves per event
    chatHistories,     \* const chatHistories: historyKey -> pending entries
    tasks,             \* calls of handleKookMessage awaiting their dispatch
    out,               \* what the last step of handleKookMessage did
    sendOut,           \* what the last call of sendMessageKook did
    mentionOut,        \* what the plugin's resolveRequireMention last returned
    mediaOut,          \* what the last call of the adapter's sendMedia sent
    logoutOut,         \* the last call of logoutAccount: what it wrote and returned
    sends,             \* the calls of sendMessageKook awaiting their REST answer
    dispatchers        \* the reply dispatchers handed to the host

vars == <<pc, aborted, botId, probes, sn, sessionId, reconnectAttempt, waitMs,
          gwFetches, nconn, conns, lastExit, pingOut, account, dispatchOut,
          cfg, chatHistories, tasks, out, sendOut, mentionOut, mediaOut,
          logoutOut, sends, dispatchers>>

\* What handleKookMessage works on.
botVars == <<cfg, chatHistories, tasks, out>>

\* What the monitor works on, the account and the hand-over excepted.
monitorVars == <<pc, aborted, sn, sessionId, reconnectAttempt, waitMs,
                 gwFetches, nconn, conns, lastExit, pingOut>>

Min(a, b) == IF a <= b THEN a ELSE b

\* A slot of conns no socket has been created for.
\*   ws: "connecting", "open", "closing" (close() called on an open socket),
\*       "aborting" (close() called before the socket opened), "closed"
\*   helloTimer: the delay of the armed timeout, 0 for null
\*   heartbeatTimer: the period of the interval the variable holds, 0 for null
\*   tickers: heartbeat intervals armed for the socket
\*   listening: handleAbort is registered on the signal; wired: the socket has
\*   its listeners; sched: reconnects this connection scheduled; url: the
\*   getGateway call its URL came from
NoConn ==
    [ws |-> "none", helloTimer |-> 0, heartbeatTimer |-> 0, tickers |-> 0,
     resolved |-> FALSE, listening |-> FALSE, wired |-> FALSE, sched |-> 0,
     url |-> 0]

\* new WebSocket(gatewayUrl) with heartbeatTimer = helloTimer = null, resolved = false.
NewConn(u) ==
    [NoConn EXCEPT !.ws = "connecting", !.url = u]

\* ws.close(): starts the closing handshake of a socket that is not closed yet.
WsCloseCall(state) ==
    CASE state = "open" -> "closing"
      [] state = "connecting" -> "aborting"
      [] OTHER -> state

\* A cleanup that clears the timers and leaves the socket as it is.
Cleanup_NoClose(c) ==
    [c EXCEPT !.tickers = IF c.heartbeatTimer > 0 THEN c.tickers - 1 ELSE c.tickers,
              !.heartbeatTimer = 0,
              !.helloTimer = 0]

\* cleanup(): clearInterval(heartbeatTimer), clearTimeout(helloTimer), ws.close().
\* clearInterval disarms the one interval heartbeatTimer refers to.
Cleanup(c) ==
    [c EXCEPT !.tickers = IF c.heartbeatTimer > 0 THEN c.tickers - 1 ELSE c.tickers,
              !.heartbeatTimer = 0,
              !.helloTimer = 0,
              !.ws = WsCloseCall(c.ws)]

\* A handleAbort that resolves without running cleanup().
HandleAbort_NoCleanup(c) ==
    [c EXCEPT !.resolved = TRUE, !.listening = FALSE]

\* handleAbort(): cleanup(), then resolve() unless an outcome was taken.  The
\* listener was added with {once: true}, so it is gone once it has run.
HandleAbort(c) ==
    [Cleanup(c) EXCEPT !.resolved = TRUE, !.listening = FALSE]

\* The wait without the Math.min cap.
BackoffWait_NoCap(n) ==
    RECONNECT_BASE_MS * 2^(n - 1)

\* Math.min(RECONNECT_BASE_MS * 2 ** (reconnectAttempt - 1), MAX_RECONNECT_WAIT_MS)
BackoffWait(n) ==
    Min(RECONNECT_BASE_MS * 2^(n - 1), MAX_RECONNECT_WAIT_MS)

\* An open handler that leaves reconnectAttempt alone.
OpenAttempt_Keep(a) == a

\* The open handler's assignment reconnectAttempt = 0.
OpenAttempt(a) == 0

\* The phases of a connection no outcome has been taken for: the hello timer
\* is armed from the socket's creation until Hello, the heartbeat from Hello on.
AwaitingHello(c) ==
    c.wired /\ c.ws \in {"connecting", "open"} /\ c.helloTimer > 0

Live(c) ==
    c.wired /\ c.ws = "open" /\ c.heartbeatTimer > 0

\* `(d.session_id as string) ?? sessionId`
SessionIdOr(sid, old) == IF sid = NoSid THEN old ELSE sid

\* case 0: `if (typeof frame.sn === "number") sn = frame.sn`
EventSn(hasSn, n, old) == IF hasSn THEN n ELSE old

(***************************************************************************)
(* Accounts, events and configuration.                                     *)
(***************************************************************************)

\* ResolvedKookAccount: token "" stands for an absent token.
Accounts == [enabled : BOOLEAN, token : {"", "tok"}]

\* account.configured of the resolved view: a token is present.
Configured(a) == a.token # ""

ValidAccount == [enabled |-> TRUE, token |-> "tok"]

\* A guard that never finds the token missing.
TokenMissing_Never(a) == FALSE

\* `if (!account.token)` of connectWebSocket.
TokenMissing(a) == a.token = ""

\* What listEnabledKookAccounts may answer for the account: whether the list
\* holds it.  A disabled account is never listed, an enabled one with a token
\* always is.
ListedChoices(a) ==
    IF ~a.enabled THEN {FALSE}
    ELSE IF Configured(a) THEN {TRUE} ELSE BOOLEAN

\* An optional value: <<>> for undefined, <<x>> for x; Opt is `o ?? d`.
None == <<>>
Some(x) == <<x>>
Opt(o, d) == IF o = <<>> THEN d ELSE o[1]

Channels == {"11", "12"}     \* target_id of group events
Guilds == {"21"}
Users == {"31", "32"}
MsgIds == {"m1", "m2"}
NoGuild == "undefined"       \* extra.guild_id absent
MsgTypes == {1, 9, 10, 255, 2}

\* KookEventData, with extra.guild_id and extra.mention lifted to the top.
KookEvent(ct, ty, target, author, msg, guild, mention) ==
    [channel_type |-> ct, type |-> ty, target_id |-> target,
     author_id |-> author, msg_id |-> msg, guild_id |-> guild,
     mention |-> mention]

\* Every kind of event the admission tells apart: a message of every type
\* written by a user, and the same written by the bot itself.
AdmissionEvents ==
    {KookEvent("GROUP", ty, "11", a, "m1", "21", {}) :
        ty \in MsgTypes, a \in {"bot", "31"}}

\* The events the gateway sends in Spec: a user's text message, a system
\* event, a text message written by the bot itself and a direct message.
MonitorEvents ==
    {KookEvent("GROUP", 1, "11", "31", "m1", "21", {}),
     KookEvent("GROUP", 255, "11", "31", "m1", "21", {}),
     KookEvent("GROUP", 1, "11", "bot", "m1", "21", {}),
     KookEvent("PERSON", 1, "32", "32", "m2", NoGuild, {})}

\* Event frames as <<hasSn, sn, event>>: the first event of the set with
\* every sn, and every event with sn = MaxSn and with none.
EventFrames(events) ==
    LET first == CHOOSE e \in events : e.type = 1 /\ e.author_id = "31"
    IN  {<<TRUE, n, first>> : n \in 0..MaxSn}
        \cup {<<h, IF h THEN MaxSn ELSE 0, e>> : h \in BOOLEAN, e \in events}

\* An admission that does not skip the bot's own messages.
Admit_NoSelfCheck(b, e) ==
    /\ e.type # 255
    /\ e.type \in {1, 9, 10}

\* An admission that drops system events but no other type.
Admit_NoTypeCheck(b, e) ==
    /\ ~(b # "undefined" /\ e.author_id = b)
    /\ e.type # 255

\* case 0 of the message handler: the event reaches handleKookMessage unless
\* it was written by botId (when the probe found one), is a system event
\* (255) or is not of type 1, 9 or 10.
Admit(b, e) ==
    /\ ~(b # "undefined" /\ e.author_id = b)
    /\ e.type # 255
    /\ e.type \in {1, 9, 10}

\* An entry of an allow-list: a string or a number.
Str(x) == [t |-> "string", n |-> 0, s |-> x]
Num(k) == [t |-> "number", n |-> k, s |-> ""]

DigitStr == <<"0", "1", "2", "3", "4", "5", "6", "7", "8", "9">>

\* The decimal digits of a natural number.
RECURSIVE Decimal(_)
Decimal(k) ==
    IF k < 10 THEN DigitStr[k + 1]
    ELSE Decimal(k \div 10) \o DigitStr[(k % 10) + 1]

\* String(entry)
String(entry) == IF entry.t = "number" THEN Decimal(entry.n) ELSE entry.s

\* kookCfg.groups[k]: {enabled?, requireMention?}
GroupConfig(en, rm) == [enabled |-> en, requireMention |-> rm]

GroupKeys == Channels \cup Guilds \cup {"", "*"}
NoGroups == [k \in GroupKeys |-> None]

\* The groups maps drawn: none, channel 11 disabled, channel 11 answering
\* without a mention, guild 21 asking for one.
GroupsMaps ==
    {NoGroups,
     [NoGroups EXCEPT !["11"] = Some(GroupConfig(Some(FALSE), None))],
     [NoGroups EXCEPT !["11"] = Some(GroupConfig(None, Some(FALSE)))],
     [NoGroups EXCEPT !["21"] = Some(GroupConfig(Some(TRUE), Some(TRUE)))]}

GroupAllowLists == {None, Some(<<Str("21")>>), Some(<<Str("99"), Num(11)>>)}
DmAllowLists == {None, Some(<<Str("31")>>), Some(<<Num(32)>>)}
GroupPolicies == {None, Some("disabled"), Some("open"), Some("allowlist")}
DmPolicies == {None, Some("open"), Some("allowlist"), Some("pairing")}

\* account.config and cfg.messages.groupChat.historyLimit of one configuration.
KookCfg(gp, gaf, gs, rm, dp, af, hl) ==
    [groupPolicy |-> gp, groupAllowFrom |-> gaf, groups |-> gs,
     requireMention |-> rm, dmPolicy |-> dp, allowFrom |-> af,
     historyLimit |-> hl]

DefaultCfg == KookCfg(None, None, NoGroups, None, None, None, MaxLimit)

\* The history limits drawn: a negative one, none, one entry, the largest.
HistoryLimits == {-1, 0, 1, MaxLimit}

\* The configurations drawn.  With direct messages closed (dmPolicy
\* "allowlist" without a list): every group policy with every allow-list and
\* every history limit; the policy "open" with every groups map, every
\* account-level requireMention and every history limit; and the policy
\* "disabled" with every allow-list, groups map and requireMention.  With
\* groups closed (no group policy and no list): every DM policy with every
\* DM allow-list.
Cfgs ==
    {KookCfg(gp, gaf, NoGroups, None, Some("allowlist"), None, hl) :
        gp \in GroupPolicies, gaf \in GroupAllowLists, hl \in HistoryLimits}
    \cup
    {KookCfg(Some("open"), None, gs, rm, Some("allowlist"), None, hl) :
        gs \in GroupsMaps, rm \in {None, Some(TRUE), Some(FALSE)},
        hl \in HistoryLimits}
    \cup
    {KookCfg(Some("disabled"), gaf, gs, rm, Some("allowlist"), None, MaxLimit) :
        gaf \in GroupAllowLists, gs \in GroupsMaps,
        rm \in {None, Some(TRUE), Some(FALSE)}}
    \cup
    {KookCfg(None, None, NoGroups, None, dp, af, MaxLimit) :
        dp \in DmPolicies, af \in DmAllowLists}

\* The events handleKookMessage is drawn.  In channel 11, messages of user
\* 31 with or without a guild id that mention nobody (either message id) or
\* the bot (m1), and one that mentions another user; in channel 12 of guild
\* 21, message m1 with and without a mention of the bot; and direct and
\* broadcast messages to the bot.
BotEvents ==
    {KookEvent("GROUP", 9, "11", "31", m, g, {}) :
        m \in MsgIds, g \in Guilds \cup {NoGuild}}
    \cup
    {KookEvent("GROUP", 9, "11", "31", "m1", g, {"bot"}) :
        g \in Guilds \cup {NoGuild}}
    \cup
    {KookEvent("GROUP", 9, "12", "31", "m1", "21", mn) : mn \in {{}, {"bot"}}}
    \cup
    {KookEvent("GROUP", 1, "11", "31", "m2", "21", {"32"}),
     KookEvent("BROADCAST", 1, "bot", "31", "m1", NoGuild, {})}
    \cup
    {KookEvent("PERSON", 1, "bot", u, "m1", NoGuild, {}) : u \in Users}

\* The state handleKookMessage starts from: nothing buffered, nothing in flight.
NoOut == [result |-> "none", calls |-> <<>>, body |-> <<>>]
NoHistories == [ch \in Channels |-> <<>>]

\* The historyKey of a call: the channel, or undefined for a direct message.
TaskKeys == Channels \cup {"undefined"}
NoTasks == [k \in TaskKeys |-> 0]

\* No call of sendMessageKook was made.
NoSend == [to |-> <<>>, isDm |-> FALSE, result |-> "none", calls |-> <<>>,
           chatId |-> <<>>]

\* No call of resolveRequireMention yet.
NoMention == [groupId |-> <<>>, result |-> <<>>]

\* No call of sendMedia yet.
NoMedia == [text |-> <<>>, mediaUrl |-> <<>>, sent |-> <<>>]

\* No call of logoutAccount yet.  status is "pending" while the call awaits
\* writeConfigFile, then "returned" or "rejected".
NoLogout == [status |-> "none", named |-> FALSE, written |-> <<>>, result |-> <<>>]

HandlerIdle ==
    /\ logoutOut = NoLogout
    /\ sends = EmptyBag
    /\ dispatchers = {}
    /\ chatHistories = NoHistories
    /\ tasks = NoTasks
    /\ out = NoOut
    /\ sendOut = NoSend
    /\ mentionOut = NoMention
    /\ mediaOut = NoMedia

\* A step of the monitor that hands no event over and leaves
\* handleKookMessage's state alone.
Quiet ==
    /\ dispatchOut' = <<>>
    /\ UNCHANGED <<account, logoutOut, sends, dispatchers>>
    /\ UNCHANGED <<cfg, chatHistories, tasks, out, sendOut,
                   mentionOut, mediaOut>>

Init ==
    /\ pc = "fetchBotId"
    /\ aborted = FALSE
    /\ botId = "undefined"
    /\ probes = 0
    /\ sn = 0
    /\ sessionId = ""
    /\ reconnectAttempt = 0
    /\ waitMs = 0
    /\ gwFetches = 0
    /\ nconn = 0
    /\ conns = [i \in 1..MaxConn |-> NoConn]
    /\ lastExit = "none"
    /\ pingOut = -1
    /\ account = ValidAccount
    /\ dispatchOut = <<>>
    /\ cfg = DefaultCfg
    /\ HandlerIdle

\* connect() up to `await getGateway(apiOpts, 0)`.
ConnectBegin ==
    IF aborted
    THEN /\ pc' = "resolved"
         /\ UNCHANGED gwFetches
    ELSE /\ pc' = "fetchGateway"
         /\ gwFetches' = gwFetches + 1

\* scheduleReconnect() up to `await new Promise((r) => setTimeout(r, waitMs))`.
\* Returning at once resolves the connection's promise through then(resolve, reject).
ScheduleReconnect ==
    IF aborted
    THEN /\ pc' = "resolved"
         /\ UNCHANGED <<reconnectAttempt, waitMs>>
    ELSE /\ reconnectAttempt' = reconnectAttempt + 1
         /\ waitMs' = BackoffWait(reconnectAttempt + 1)
         /\ pc' = "backoff"

\* `if (!resolved) { resolved = true; scheduleReconnect().then(resolve, reject); }`
\* for socket i, whose closure after cleanup and removeEventListener is c.
TakeOutcome(i, c, cause) ==
    IF c.resolved
    THEN /\ conns' = [conns EXCEPT ![i] = c]
         /\ UNCHANGED <<pc, reconnectAttempt, waitMs, lastExit>>
    ELSE /\ conns' = [conns EXCEPT ![i] =
                        [c EXCEPT !.resolved = TRUE,
                                  !.sched = IF aborted THEN @ ELSE @ + 1]]
         /\ lastExit' = cause
         /\ ScheduleReconnect

\* `await fetchBotId(apiOpts)` settles (it never throws), then connect() starts.
FetchBotIdDone(b) ==
    /\ pc = "fetchBotId"
    /\ botId' = b
    /\ probes' = probes + 1
    /\ ConnectBegin
    /\ pingOut' = -1
    /\ Quiet
    /\ UNCHANGED <<aborted, sn, sessionId, reconnectAttempt, waitMs, nconn, conns,
                   lastExit>>

\* getGateway throws or answers code # 0: connect() throws, and the rejection
\* runs up the then(resolve, reject) chain to connectWebSocket's promise.
GatewayFail ==
    /\ pc = "fetchGateway"
    /\ pc' = "rejected"
    /\ pingOut' = -1
    /\ Quiet
    /\ UNCHANGED <<aborted, botId, probes, sn, sessionId, reconnectAttempt, waitMs,
                   gwFetches, nconn, conns, lastExit>>

\* getGateway answers code 0: the executor of `new Promise` creates the socket,
\* and either gives up at once (already aborted) or wires the listeners and arms
\* the hello timer.
GatewayOk ==
    /\ pc = "fetchGateway"
    /\ nconn < MaxConn
    /\ nconn' = nconn + 1
    /\ IF aborted
       THEN /\ conns' = [conns EXCEPT ![nconn + 1] = Cleanup(NewConn(gwFetches))]
            /\ pc' = "resolved"
       ELSE /\ conns' = [conns EXCEPT ![nconn + 1] =
                           [NewConn(gwFetches) EXCEPT !.listening = TRUE,
                                                      !.wired = TRUE,
                                                      !.helloTimer = HELLO_TIMEOUT_MS]]
            /\ pc' = "connected"
    /\ pingOut' = -1
    /\ Quiet
    /\ UNCHANGED <<aborted, botId, probes, sn, sessionId, reconnectAttempt, waitMs,
                   gwFetches, lastExit>>

\* The abort signal fires: the one listener still registered runs handleAbort.
Abort ==
    /\ ~aborted
    /\ aborted' = TRUE
    /\ conns' = [i \in 1..MaxConn |->
                    IF conns[i].listening THEN HandleAbort(conns[i]) ELSE conns[i]]
    /\ IF \E i \in 1..MaxConn : conns[i].listening /\ ~conns[i].resolved
       THEN /\ pc' = "resolved"
            /\ lastExit' = IF \E i \in 1..MaxConn :
                                 conns[i].listening /\ AwaitingHello(conns[i])
                           THEN "abortAwaitingHello" ELSE "abortLive"
       ELSE UNCHANGED <<pc, lastExit>>
    /\ pingOut' = -1
    /\ Quiet
    /\ UNCHANGED <<botId, probes, sn, sessionId, reconnectAttempt, waitMs, gwFetches, nconn>>

\* The backoff timer of scheduleReconnect fires; connect() follows unless aborted.
BackoffElapsed ==
    /\ pc = "backoff"
    /\ aborted \/ nconn < MaxConn
    /\ ConnectBegin
    /\ waitMs' = 0
    /\ pingOut' = -1
    /\ Quiet
    /\ UNCHANGED <<aborted, botId, probes, sn, sessionId, reconnectAttempt, nconn, conns,
                   lastExit>>

\* The hello timer of socket i fires.
HelloTimeout(i) ==
    /\ conns[i].helloTimer > 0
    /\ TakeOutcome(i, [Cleanup(conns[i]) EXCEPT !.listening = FALSE], "helloTimeout")
    /\ pingOut' = -1
    /\ Quiet
    /\ UNCHANGED <<aborted, botId, probes, sn, sessionId, gwFetches, nconn>>

\* The socket's open event.
WsOpen(i) ==
    /\ conns[i].wired
    /\ conns[i].ws = "connecting"
    /\ conns' = [conns EXCEPT ![i].ws = "open"]
    /\ reconnectAttempt' = OpenAttempt(reconnectAttempt)
    /\ pingOut' = -1
    /\ Quiet
    /\ UNCHANGED <<pc, aborted, botId, probes, sn, sessionId, waitMs, gwFetches, nconn,
                   lastExit>>

\* A message event is dispatched to the handler only while the socket is
\* open: once ws.close() was called (readyState CLOSING) the WebSocket drops
\* the frames that still arrive before the close event.
CanReceive(c) ==
    c.wired /\ c.ws = "open"

\* Hello (s = 1).
RecvHello(i, sid) ==
    /\ CanReceive(conns[i])
    /\ conns[i].tickers < MaxTickers
    /\ sessionId' = SessionIdOr(sid, sessionId)
    /\ conns' = [conns EXCEPT ![i].helloTimer = 0,
                              ![i].heartbeatTimer = HEARTBEAT_INTERVAL_MS,
                              ![i].tickers = @ + 1]
    /\ pingOut' = -1
    /\ Quiet
    /\ UNCHANGED <<pc, aborted, botId, probes, sn, reconnectAttempt, waitMs, gwFetches,
                   nconn, lastExit>>

\* case 0 of the message handler, what the call of handleKookMessage does
\* left aside: the sequence update, then the admission.
EventFrame(i, hasSn, n, e) ==
    /\ CanReceive(conns[i])
    /\ sn' = EventSn(hasSn, n, sn)
    /\ dispatchOut' = IF Admit(botId, e) THEN <<e>> ELSE <<>>
    /\ pingOut' = -1
    /\ UNCHANGED <<pc, aborted, botId, probes, sessionId, reconnectAttempt, waitMs,
                   gwFetches, nconn, conns, lastExit>>

\* Reconnect (s = 5).
RecvReconnect(i) ==
    /\ CanReceive(conns[i])
    /\ sn' = 0
    /\ sessionId' = ""
    /\ TakeOutcome(i, [Cleanup(conns[i]) EXCEPT !.listening = FALSE], "reconnect")
    /\ pingOut' = -1
    /\ Quiet
    /\ UNCHANGED <<aborted, botId, probes, gwFetches, nconn>>

\* Resume ACK (s = 6).
RecvResumeAck(i, sid) ==
    /\ CanReceive(conns[i])
    /\ sessionId' = SessionIdOr(sid, sessionId)
    /\ pingOut' = -1
    /\ Quiet
    /\ UNCHANGED <<pc, aborted, botId, probes, sn, reconnectAttempt, waitMs, gwFetches,
                   nconn, conns, lastExit>>

\* Pong (s = 3), and a signal the switch has no case for: nothing changes.
RecvPong(i) ==
    /\ CanReceive(conns[i])
    /\ pingOut' = -1
    /\ Quiet
    /\ UNCHANGED <<pc, aborted, botId, probes, sn, sessionId, reconnectAttempt, waitMs,
                   gwFetches, nconn, conns, lastExit>>

\* Hello (s = 1) without d: the hello timer is cleared, then reading
\* helloData.session_id throws and the catch logs it; the heartbeat is not
\* started.
RecvHelloNoData(i) ==
    /\ CanReceive(conns[i])
    /\ conns' = [conns EXCEPT ![i].helloTimer = 0]
    /\ pingOut' = -1
    /\ Quiet
    /\ UNCHANGED <<pc, aborted, botId, probes, sn, sessionId, reconnectAttempt,
                   waitMs, gwFetches, nconn, lastExit>>

\* Event (s = 0) without d: the sequence update, then reading eventData.type
\* (or author_id) throws and the catch logs it.
RecvEventNoData(i, hasSn, n) ==
    /\ CanReceive(conns[i])
    /\ sn' = EventSn(hasSn, n, sn)
    /\ pingOut' = -1
    /\ Quiet
    /\ UNCHANGED <<pc, aborted, botId, probes, sessionId, reconnectAttempt,
                   waitMs, gwFetches, nconn, conns, lastExit>>

\* Text JSON.parse rejects, or a frame whose handling throws before it has
\* assigned anything (null, a Resume ACK without d): the catch logs it and
\* nothing changes.
RecvMalformed(i) ==
    /\ CanReceive(conns[i])
    /\ pingOut' = -1
    /\ Quiet
    /\ UNCHANGED <<pc, aborted, botId, probes, sn, sessionId, reconnectAttempt, waitMs,
                   gwFetches, nconn, conns, lastExit>>

\* A close handler that resolves the connection and never schedules a reconnect.
WsClose_ResolveOnly(i) ==
    /\ conns[i].ws \in {"connecting", "open", "closing", "aborting"}
    /\ conns' = [conns EXCEPT ![i] =
                    [Cleanup([conns[i] EXCEPT !.ws = "closed"])
                        EXCEPT !.listening = FALSE, !.resolved = TRUE]]
    /\ IF conns[i].wired /\ ~conns[i].resolved
       THEN pc' = "resolved" /\ lastExit' = "close"
       ELSE UNCHANGED <<pc, lastExit>>
    /\ pingOut' = -1
    /\ Quiet
    /\ UNCHANGED <<aborted, botId, probes, sn, sessionId, gwFetches, nconn,
                   reconnectAttempt, waitMs>>

\* A close handler that schedules a reconnect whether or not the connection
\* has taken its outcome.
WsClose_AlwaysSchedules(i) ==
    /\ conns[i].ws \in {"connecting", "open", "closing", "aborting"}
    /\ IF ~conns[i].wired
       THEN /\ conns' = [conns EXCEPT ![i].ws = "closed"]
            /\ UNCHANGED <<pc, reconnectAttempt, waitMs, lastExit>>
       ELSE LET c == [Cleanup([conns[i] EXCEPT !.ws = "closed"])
                        EXCEPT !.listening = FALSE]
            IN  /\ conns' = [conns EXCEPT ![i] =
                                [c EXCEPT !.resolved = TRUE,
                                          !.sched = IF aborted THEN @ ELSE @ + 1]]
                /\ lastExit' = "close"
                /\ ScheduleReconnect
    /\ pingOut' = -1
    /\ Quiet
    /\ UNCHANGED <<aborted, botId, probes, sn, sessionId, gwFetches, nconn>>

\* The socket's close event.
WsClose(i) ==
    /\ conns[i].ws \in {"connecting", "open", "closing", "aborting"}
    /\ IF ~conns[i].wired
       THEN /\ conns' = [conns EXCEPT ![i].ws = "closed"]
            /\ UNCHANGED <<pc, reconnectAttempt, waitMs, lastExit>>
       ELSE LET c == [Cleanup([conns[i] EXCEPT !.ws = "closed"])
                        EXCEPT !.listening = FALSE]
            IN  IF ~c.resolved /\ ~aborted
                THEN TakeOutcome(i, c, "close")
                ELSE /\ conns' = [conns EXCEPT ![i] = [c EXCEPT !.resolved = TRUE]]
                     /\ IF ~c.resolved
                        THEN pc' = "resolved" /\ lastExit' = "close"
                        ELSE UNCHANGED <<pc, lastExit>>
                     /\ UNCHANGED <<reconnectAttempt, waitMs>>
    /\ pingOut' = -1
    /\ Quiet
    /\ UNCHANGED <<aborted, botId, probes, sn, sessionId, gwFetches, nconn>>

\* The socket's error event: the handler only logs.
WsError(i) ==
    /\ conns[i].wired
    /\ conns[i].ws \in {"connecting", "open", "closing", "aborting"}
    /\ pingOut' = -1
    /\ Quiet
    /\ UNCHANGED <<pc, aborted, botId, probes, sn, sessionId, reconnectAttempt, waitMs,
                   gwFetches, nconn, conns, lastExit>>

\* A heartbeat that is held back while a call of handleKookMessage awaits
\* its dispatch.
HeartbeatTick_AfterHandlers(i) ==
    /\ conns[i].tickers > 0
    /\ \A k \in DOMAIN tasks : tasks[k] = 0
    /\ pingOut' = IF conns[i].ws = "open" THEN sn ELSE -1
    /\ Quiet
    /\ UNCHANGED <<pc, aborted, botId, probes, sn, sessionId, reconnectAttempt, waitMs,
                   gwFetches, nconn, conns, lastExit>>

\* A heartbeat interval of socket i fires: ws.send({s: 2, sn}); a socket that
\* is not open sends nothing (a throw is caught and logged).
HeartbeatTick(i) ==
    /\ conns[i].tickers > 0
    /\ pingOut' = IF conns[i].ws = "open" THEN sn ELSE -1
    /\ Quiet
    /\ UNCHANGED <<pc, aborted, botId, probes, sn, sessionId, reconnectAttempt, waitMs,
                   gwFetches, nconn, conns, lastExit>>

(***************************************************************************)
(* The backoff of scheduleReconnect on its own: the run stands in          *)
(* connect(), waiting for getGateway, after `a` connections in a row       *)
(* failed without opening (their sockets are closed and forgotten), and    *)
(* the sockets it creates from there never open either.                    *)
(***************************************************************************)
InitBackoff ==
    /\ pc = "fetchGateway"
    /\ aborted = FALSE
    /\ botId \in BotIds
    /\ probes = 1
    /\ sn = 0
    /\ sessionId = ""
    /\ reconnectAttempt \in 0..(MaxAttemptN - 1)
    /\ waitMs = 0
    /\ gwFetches = reconnectAttempt + 1
    /\ nconn = 0
    /\ conns = [i \in 1..MaxConn |-> NoConn]
    /\ lastExit = IF reconnectAttempt = 0 THEN "none" ELSE "close"
    /\ pingOut = -1
    /\ account = ValidAccount
    /\ dispatchOut = <<>>
    /\ cfg = DefaultCfg
    /\ HandlerIdle

NextBackoff ==
    \/ GatewayFail
    \/ GatewayOk
    \/ Abort
    \/ BackoffElapsed
    \/ \E i \in 1..MaxConn :
          \/ HelloTimeout(i)
          \/ WsClose(i)
          \/ WsError(i)

SpecBackoff == InitBackoff /\ [][NextBackoff]_vars

(***************************************************************************)
(* The entry point: monitorKookProvider for one account, up to the sockets *)
(* that never open.  opts.config may be missing (hasCfg), the account may  *)
(* be named by opts.accountId (byId) or come from the list of enabled      *)
(* accounts (listed).                                                      *)
(***************************************************************************)

\* connectWebSocket up to `await fetchBotId(apiOpts)`: an async function that
\* throws rejects its promise.
ConnectWebSocketBegin ==
    IF TokenMissing(account)
    THEN pc' = "rejected" /\ lastExit' = "noToken"
    ELSE pc' = "fetchBotId" /\ UNCHANGED lastExit

\* monitorKookProvider(opts) up to its first await: for a named account the
\* call runs into connectWebSocket and on to `await fetchBotId`; without
\* opts.accountId it stops at `await import("../accounts.js")`, having done
\* nothing yet.
MonitorKookProvider(hasCfg, byId) ==
    /\ pc = "start"
    /\ IF ~hasCfg
       THEN pc' = "rejected" /\ lastExit' = "noConfig"
       ELSE IF byId
            THEN IF ~account.enabled \/ ~Configured(account)
                 THEN pc' = "rejected" /\ lastExit' = "notConfigured"
                 ELSE ConnectWebSocketBegin
            ELSE pc' = "importAccounts" /\ UNCHANGED lastExit
    /\ pingOut' = -1
    /\ Quiet
    /\ UNCHANGED <<aborted, botId, probes, sn, sessionId, reconnectAttempt, waitMs,
                   gwFetches, nconn, conns>>

\* The import settles: listEnabledKookAccounts(cfg), the return when the list
\* is empty, else monitorSingleAccount and connectWebSocket up to
\* `await fetchBotId`.
MonitorAllAccounts(listed) ==
    /\ pc = "importAccounts"
    /\ IF ~listed
       THEN pc' = "resolved" /\ lastExit' = "noAccounts"
       ELSE ConnectWebSocketBegin
    /\ pingOut' = -1
    /\ Quiet
    /\ UNCHANGED <<aborted, botId, probes, sn, sessionId, reconnectAttempt, waitMs,
                   gwFetches, nconn, conns>>

InitEntry ==
    /\ pc = "start"
    /\ aborted = FALSE
    /\ botId = "undefined"
    /\ probes = 0
    /\ sn = 0
    /\ sessionId = ""
    /\ reconnectAttempt = 0
    /\ waitMs = 0
    /\ gwFetches = 0
    /\ nconn = 0
    /\ conns = [i \in 1..MaxConn |-> NoConn]
    /\ lastExit = "none"
    /\ pingOut = -1
    /\ account \in Accounts
    /\ dispatchOut = <<>>
    /\ cfg = DefaultCfg
    /\ HandlerIdle

NextEntry ==
    \/ \E hasCfg \in BOOLEAN, byId \in BOOLEAN : MonitorKookProvider(hasCfg, byId)
    \/ \E listed \in ListedChoices(account) : MonitorAllAccounts(listed)
    \/ \E b \in BotIds : FetchBotIdDone(b)
    \/ GatewayFail
    \/ GatewayOk
    \/ Abort
    \/ BackoffElapsed
    \/ \E i \in 1..MaxConn :
          \/ HelloTimeout(i)
          \/ WsOpen(i)
          \/ WsClose(i)
          \/ WsError(i)

SpecEntry == InitEntry /\ [][NextEntry]_vars

(***************************************************************************)
(* The frames of one connection: the first socket of a run has opened and  *)
(* awaits Hello; the gateway sends it frames of every signal and events of *)
(* every kind until an outcome is taken for it.                            *)
(***************************************************************************)
InitFrames ==
    /\ pc = "connected"
    /\ aborted = FALSE
    /\ botId \in BotIds
    /\ probes = 1
    /\ sn = 0
    /\ sessionId = ""
    /\ reconnectAttempt = 0
    /\ waitMs = 0
    /\ gwFetches = 1
    /\ nconn = 1
    /\ conns = [i \in 1..MaxConn |->
                  IF i = 1
                  THEN [NewConn(1) EXCEPT !.ws = "open", !.listening = TRUE,
                                          !.wired = TRUE,
                                          !.helloTimer = HELLO_TIMEOUT_MS]
                  ELSE NoConn]
    /\ lastExit = "none"
    /\ pingOut = -1
    /\ account = ValidAccount
    /\ dispatchOut = <<>>
    /\ cfg = DefaultCfg
    /\ HandlerIdle

(***************************************************************************)
(* handleKookMessage (bot.ts): the policy gate, the mention gate, the       *)
(* pending history of each channel and the dispatch downstream.  The call  *)
(* runs without interruption up to `await dispatchReplyFromConfig`, so it  *)
(* is one action; what follows the await is another.                       *)
(***************************************************************************)

\* A mention check that does not look at the bot id: any mention counts.
checkBotMentioned_AnyMention(e, b) == e.mention # {}

\* checkBotMentioned(event, botId)
checkBotMentioned(e, b) ==
    IF b = "undefined" THEN FALSE ELSE b \in e.mention

\* An isGroupAllowed without the "disabled" case.
isGroupAllowed_NoDisabled(groupPolicy, allowFrom, guildId, channelId) ==
    IF groupPolicy = "open" THEN TRUE
    ELSE \E k \in 1..Len(allowFrom) :
            String(allowFrom[k]) = guildId \/ String(allowFrom[k]) = channelId

\* An isGroupAllowed whose allow-list is matched against the guild only.
isGroupAllowed_GuildOnly(groupPolicy, allowFrom, guildId, channelId) ==
    IF groupPolicy = "disabled" THEN FALSE
    ELSE IF groupPolicy = "open" THEN TRUE
    ELSE \E k \in 1..Len(allowFrom) : String(allowFrom[k]) = guildId

\* isGroupAllowed({groupPolicy, allowFrom, guildId, channelId})
isGroupAllowed(groupPolicy, allowFrom, guildId, channelId) ==
    IF groupPolicy = "disabled" THEN FALSE
    ELSE IF groupPolicy = "open" THEN TRUE
    ELSE \E k \in 1..Len(allowFrom) :
            String(allowFrom[k]) = guildId \/ String(allowFrom[k]) = channelId

\* An isDmAllowed that lets every sender in.
isDmAllowed_Open(dmPolicy, allowFrom, senderId) == TRUE

\* isDmAllowed({dmPolicy, allowFrom, senderId})
isDmAllowed(dmPolicy, allowFrom, senderId) ==
    IF dmPolicy = "open" THEN TRUE
    ELSE IF dmPolicy = "allowlist"
         THEN \E k \in 1..Len(allowFrom) : String(allowFrom[k]) = senderId
         ELSE TRUE

\* `guildId ?? ""`
GuildOrEmpty(e) == IF e.guild_id = NoGuild THEN "" ELSE e.guild_id

\* A group lookup by channel id only, without the guild's entry.
GroupConfigOf_ChannelOnly(c, e) == c.groups[e.target_id]

\* `kookCfg?.groups?.[channelId] ?? kookCfg?.groups?.[guildId ?? ""]`
GroupConfigOf(c, e) ==
    IF c.groups[e.target_id] # None
    THEN c.groups[e.target_id]
    ELSE c.groups[GuildOrEmpty(e)]

\* A mention gate that never asks for a mention.
RequireMention_Never(c, e) == FALSE

\* `groupConfig?.requireMention ?? kookCfg?.requireMention ?? true`
RequireMention(c, e) ==
    LET gc == GroupConfigOf(c, e)
    IN  Opt(IF gc = None THEN None ELSE gc[1].requireMention,
            Opt(c.requireMention, TRUE))

\* `groupConfig?.enabled === false`
GroupDisabled(c, e) ==
    LET gc == GroupConfigOf(c, e)
    IN  gc # None /\ gc[1].enabled = Some(FALSE)

\* The path of handleKookMessage through lines 116-169 for event e under
\* configuration c and bot id b.
Gate(c, b, e) ==
    IF e.channel_type = "GROUP"
    THEN IF ~isGroupAllowed(Opt(c.groupPolicy, "allowlist"),
                            Opt(c.groupAllowFrom, <<>>),
                            GuildOrEmpty(e), e.target_id)
         THEN "groupNotAllowed"
         ELSE IF GroupDisabled(c, e) THEN "groupDisabled"
         ELSE IF RequireMention(c, e) /\ ~checkBotMentioned(e, b) THEN "record"
         ELSE "dispatch"
    ELSE IF ~isDmAllowed(Opt(c.dmPolicy, "pairing"), Opt(c.allowFrom, <<>>),
                         e.author_id)
         THEN "dmNotAllowed"
         ELSE "dispatch"

\* The HistoryEntry of an event, and the part of a body made from it.
Entry(e) == [sender |-> e.author_id, messageId |-> e.msg_id]

\* The last `limit` entries of a buffer.
Evict(buf, limit) ==
    IF Len(buf) > limit THEN SubSeq(buf, Len(buf) - limit + 1, Len(buf)) ELSE buf

\* recordPendingHistoryEntryIfEnabled({historyMap, historyKey, limit, entry})
RecordPendingHistoryEntryIfEnabled(h, key, limit, entry) ==
    [h EXCEPT ![key] = Evict(Append(@, entry), limit)]

\* buildPendingHistoryContextFromMap({historyMap, historyKey, currentMessage, ...})
BuildPendingHistoryContextFromMap(h, key, current) ==
    h[key] \o <<current>>

\* clearHistoryEntriesIfEnabled({historyMap, historyKey, limit})
ClearHistoryEntriesIfEnabled(h, key) ==
    [h EXCEPT ![key] = <<>>]

\* The collaborators called between getKookRuntime() and the await, in order.
Downstream == <<"resolveAgentRoute", "enqueueSystemEvent", "dispatchReplyFromConfig">>

Result(r, calls, body) == [result |-> r, calls |-> calls, body |-> body]

\* `const historyKey = isGroup ? channelId : undefined`
HistoryKey(e) ==
    IF e.channel_type = "GROUP" THEN e.target_id ELSE "undefined"

\* A body built without the channel's pending entries.
CombinedBody_NoHistory(h, e) == <<Entry(e)>>

\* combinedBody: the formatted message, behind the channel's pending entries
\* when the message is a group message.
CombinedBody(h, e) ==
    IF e.channel_type = "GROUP"
    THEN BuildPendingHistoryContextFromMap(h, e.target_id, Entry(e))
    ELSE <<Entry(e)>>

\* The history map once the dispatch of a call with historyKey key settled:
\* cleared for the channel behind a successful await, untouched by the catch.
HistoriesAfterDispatch(h, key, ok) ==
    IF ok /\ key # "undefined" THEN ClearHistoryEntriesIfEnabled(h, key) ELSE h

\* A resolved limit one above the configured one.
HistoryLimit_OffByOne(c) == IF c.historyLimit >= 0 THEN c.historyLimit + 1 ELSE 0

\* Math.max(0, cfg.messages?.groupChat?.historyLimit ?? DEFAULT), for a
\* configuration that sets the limit.
HistoryLimit(c) == IF c.historyLimit > 0 THEN c.historyLimit ELSE 0

\* The calls awaiting dispatchReplyFromConfig.
RECURSIVE Sum(_, _)
Sum(f, keys) ==
    IF keys = {} THEN 0
    ELSE LET k == CHOOSE x \in keys : TRUE IN f[k] + Sum(f, keys \ {k})

InFlight == Sum(tasks, TaskKeys)

\* What the step draws for failAt: a call that returns before getKookRuntime
\* has no step to fail at.
FailChoices(e) == IF Gate(cfg, botId, e) = "dispatch" THEN 0..3 ELSE {3}

\* createKookReplyDispatcher({cfg, agentId, runtime, channelId,
\* replyToMessageId, accountId, isDm}) for event e: the dispatcher by what its
\* deliver sends to.
Dispatcher(e) == [channelId |-> e.target_id, isDm |-> e.channel_type # "GROUP"]

\* handleKookMessage for event e, up to its return or its await; a call that
\* reaches `await dispatchReplyFromConfig` has handed its dispatcher to the
\* host.
\* failAt = -1: a step before the gate throws, outside the try, and the
\* call's promise rejects; 0: getKookRuntime throws; 1, 2: the first or second
\* collaborator (or a step before the next one) throws; 3: nothing throws
\* before the await.  At most cap calls await their dispatch at a time.
HandleEventUpTo(e, failAt, cap) ==
    LET g == Gate(cfg, botId, e)
        body == CombinedBody(chatHistories, e)
        key == HistoryKey(e)
    IN  IF failAt < 0
        THEN /\ out' = Result("rejected", <<>>, <<>>)
             /\ UNCHANGED <<chatHistories, tasks, dispatchers>>
        ELSE IF g = "record"
        THEN /\ chatHistories' =
                   RecordPendingHistoryEntryIfEnabled(chatHistories, key,
                                                      HistoryLimit(cfg), Entry(e))
             /\ out' = Result("recorded", <<>>, <<>>)
             /\ UNCHANGED <<tasks, dispatchers>>
        ELSE IF g = "dispatch"
        THEN IF failAt < 3
             THEN /\ out' = Result("failed", SubSeq(Downstream, 1, failAt), <<>>)
                  /\ UNCHANGED <<chatHistories, tasks, dispatchers>>
             ELSE /\ InFlight < cap
                  /\ tasks' = [tasks EXCEPT ![key] = @ + 1]
                  /\ dispatchers' = dispatchers \cup {Dispatcher(e)}
                  /\ out' = Result("dispatching", Downstream, body)
                  /\ UNCHANGED chatHistories
        ELSE /\ out' = Result(g, <<>>, <<>>)
             /\ UNCHANGED <<chatHistories, tasks, dispatchers>>

\* A call of handleKookMessage with an event the admission lets through.
HandleKookMessage(e, failAt) ==
    /\ Admit(botId, e)
    /\ HandleEventUpTo(e, failAt, MaxTasks)
    /\ UNCHANGED <<account, logoutOut, sends>>
    /\ UNCHANGED <<botId, probes, cfg, dispatchOut, sendOut,
                   mentionOut, mediaOut>>
    /\ UNCHANGED monitorVars

\* A settling whose rejection is not caught and ends the supervisor's promise.
DispatchDone_Uncaught(key, ok, logged) ==
    /\ tasks[key] > 0
    /\ logged => ok
    /\ tasks' = [tasks EXCEPT ![key] = @ - 1]
    /\ chatHistories' = HistoriesAfterDispatch(chatHistories, key, ok)
    /\ out' = Result(IF logged THEN "complete" ELSE "dispatchFailed", <<>>, <<>>)
    /\ pc' = IF logged THEN pc ELSE "rejected"
    /\ dispatchOut' = <<>>
    /\ pingOut' = -1
    /\ UNCHANGED <<account, logoutOut, sends, dispatchers>>
    /\ UNCHANGED <<botId, probes, cfg, sendOut, mentionOut, mediaOut>>
    /\ UNCHANGED <<aborted, sn, sessionId, reconnectAttempt, waitMs, gwFetches,
                   nconn, conns, lastExit>>

\* The dispatch of a call with historyKey key settles and the call runs to
\* its end.  ok: the await resolved and markDispatchIdle() returned, so the
\* channel's buffer is cleared; otherwise the catch logs the failure and
\* the buffer is kept.  logged: the completion log that follows the
\* clearing was written; when it throws (the host resolved without
\* `counts`, or log itself throws) the same catch logs a failure behind the
\* clearing.
DispatchDone(key, ok, logged) ==
    /\ tasks[key] > 0
    /\ logged => ok
    /\ tasks' = [tasks EXCEPT ![key] = @ - 1]
    /\ chatHistories' = HistoriesAfterDispatch(chatHistories, key, ok)
    /\ out' = Result(IF logged THEN "complete" ELSE "dispatchFailed", <<>>, <<>>)
    /\ dispatchOut' = <<>>
    /\ pingOut' = -1
    /\ UNCHANGED <<account, logoutOut, sends, dispatchers>>
    /\ UNCHANGED <<botId, probes, cfg, sendOut, mentionOut, mediaOut>>
    /\ UNCHANGED <<pc, aborted, sn, sessionId, reconnectAttempt, waitMs,
                   gwFetches, nconn, conns, lastExit>>

\* The first connection of a run is live; the configuration and the outcome
\* of the probe are drawn.
InitBot ==
    /\ pc = "connected"
    /\ aborted = FALSE
    /\ botId \in BotIds
    /\ probes = 1
    /\ sn = 0
    /\ sessionId = "s1"
    /\ reconnectAttempt = 0
    /\ waitMs = 0
    /\ gwFetches = 1
    /\ nconn = 1
    /\ conns = [i \in 1..MaxConn |->
                  IF i = 1
                  THEN [NewConn(1) EXCEPT !.ws = "open", !.listening = TRUE,
                                          !.wired = TRUE,
                                          !.heartbeatTimer = HEARTBEAT_INTERVAL_MS,
                                          !.tickers = 1]
                  ELSE NoConn]
    /\ lastExit = "none"
    /\ pingOut = -1
    /\ account = ValidAccount
    /\ dispatchOut = <<>>
    /\ cfg \in Cfgs
    /\ HandlerIdle

NextBot ==
    \/ \E e \in BotEvents : \E failAt \in FailChoices(e) : HandleKookMessage(e, failAt)
    \/ \E key \in TaskKeys, ok \in BOOLEAN, logged \in BOOLEAN :
          DispatchDone(key, ok, logged)

SpecBot == InitBot /\ [][NextBot]_vars

(***************************************************************************)
(* One session with its handlers: the first connection of a run is live,   *)
(* the gateway sends it frames, and every event the admission lets through *)
(* runs handleKookMessage in the same step, up to its return or its await; *)
(* the dispatches settle at any later time.                                *)
(***************************************************************************)

\* The configuration of the session: every group is let in and a mention is
\* required.
SessionCfg == KookCfg(Some("open"), None, NoGroups, None, None, None, MaxLimit)

\* The events of the session, all in channel 11: a message of user 31 that
\* mentions nobody, messages of users 31 and 32 that mention the bot, and a
\* message of the bot.
SessionEvents ==
    {KookEvent("GROUP", 1, "11", "31", "m1", "21", {}),
     KookEvent("GROUP", 9, "11", "31", "m2", "21", {"bot"}),
     KookEvent("GROUP", 9, "11", "32", "m1", "21", {"bot"}),
     KookEvent("GROUP", 1, "11", "bot", "m1", "21", {})}

\* What the step draws for failAt: any step of an admitted call may throw.
SessionFailChoices(e) ==
    IF ~Admit(botId, e) THEN {3}
    ELSE IF Gate(cfg, botId, e) = "dispatch" THEN -1..3 ELSE {-1, 3}

\* Event (s = 0) with the call it makes: `void handleKookMessage({...})`
\* runs the call up to its first await before the handler breaks.
RecvEventUpTo(i, hasSn, n, e, failAt, cap) ==
    /\ EventFrame(i, hasSn, n, e)
    /\ IF Admit(botId, e)
       THEN HandleEventUpTo(e, failAt, cap)
       ELSE UNCHANGED <<chatHistories, tasks, out, dispatchers>>
    /\ UNCHANGED <<account, logoutOut, sends>>
    /\ UNCHANGED <<cfg, sendOut, mentionOut, mediaOut>>

\* The same with at most MaxPending calls awaiting their dispatch.
RecvEventHandled(i, hasSn, n, e, failAt) ==
    RecvEventUpTo(i, hasSn, n, e, failAt, MaxPending)

\* connectWebSocket with the calls its frames make: every step of the run,
\* and the settling of the dispatches the admitted events started.  The
\* calls meet no throw before their await; SpecSession follows those that do.
Next ==
    \/ \E b \in BotIds : FetchBotIdDone(b)
    \/ GatewayFail
    \/ GatewayOk
    \/ Abort
    \/ BackoffElapsed
    \/ \E i \in 1..MaxConn :
          \/ HelloTimeout(i)
          \/ WsOpen(i)
          \/ \E sid \in SessionIds \cup {NoSid} : RecvHello(i, sid)
          \/ \E f \in EventFrames(MonitorEvents) :
                RecvEventUpTo(i, f[1], f[2], f[3], 3, MaxTasks)
          \/ RecvReconnect(i)
          \/ \E sid \in SessionIds \cup {NoSid} : RecvResumeAck(i, sid)
          \/ RecvPong(i)
          \/ RecvMalformed(i)
          \/ RecvHelloNoData(i)
          \/ \E hasSn \in BOOLEAN, n \in 0..MaxSn : RecvEventNoData(i, hasSn, n)
          \/ WsClose(i)
          \/ WsError(i)
          \/ HeartbeatTick(i)
    \/ \E key \in TaskKeys, ok \in BOOLEAN, logged \in BOOLEAN :
          DispatchDone(key, ok, logged)

Spec == Init /\ [][Next]_vars

\* The frames of one live connection, with the calls they make.
NextFrames ==
    \E i \in 1..MaxConn :
        \/ \E sid \in SessionIds \cup {NoSid} : RecvHello(i, sid)
        \/ \E f \in EventFrames(AdmissionEvents) :
              \E failAt \in SessionFailChoices(f[3]) :
                  RecvEventHandled(i, f[1], f[2], f[3], failAt)
        \/ RecvReconnect(i)
        \/ \E sid \in SessionIds \cup {NoSid} : RecvResumeAck(i, sid)
        \/ RecvPong(i)
        \/ RecvMalformed(i)
        \/ RecvHelloNoData(i)
        \/ \E hasSn \in BOOLEAN, n \in 0..MaxSn : RecvEventNoData(i, hasSn, n)
        \/ HelloTimeout(i)
        \/ HeartbeatTick(i)

SpecFrames == InitFrames /\ [][NextFrames]_vars

InitSession ==
    /\ pc = "connected"
    /\ aborted = FALSE
    /\ botId \in BotIds
    /\ probes = 1
    /\ sn = 0
    /\ sessionId = "s1"
    /\ reconnectAttempt = 0
    /\ waitMs = 0
    /\ gwFetches = 1
    /\ nconn = 1
    /\ conns = [i \in 1..MaxConn |->
                  IF i = 1
                  THEN [NewConn(1) EXCEPT !.ws = "open", !.listening = TRUE,
                                          !.wired = TRUE,
                                          !.heartbeatTimer = HEARTBEAT_INTERVAL_MS,
                                          !.tickers = 1]
                  ELSE NoConn]
    /\ lastExit = "none"
    /\ pingOut = -1
    /\ account = ValidAccount
    /\ dispatchOut = <<>>
    /\ cfg = SessionCfg
    /\ HandlerIdle

NextSession ==
    \/ \E i \in 1..MaxConn :
          \/ \E f \in EventFrames(SessionEvents) :
                \E failAt \in SessionFailChoices(f[3]) :
                    RecvEventHandled(i, f[1], f[2], f[3], failAt)
          \/ RecvReconnect(i)
          \/ \E sid \in {"s2"} : RecvResumeAck(i, sid)
          \/ RecvPong(i)
          \/ WsClose(i)
          \/ HeartbeatTick(i)
    \/ Abort
    \/ \E key \in TaskKeys, ok \in BOOLEAN, logged \in BOOLEAN :
          DispatchDone(key, ok, logged)

SpecSession == InitSession /\ [][NextSession]_vars

(***************************************************************************)
(* A run from its start: the probe of the bot's identity succeeds or       *)
(* fails, the first connection is made and becomes live, and the events    *)
(* it receives run handleKookMessage under a configuration of the mention  *)
(* gate.                                                                   *)
(***************************************************************************)

\* groupPolicy "open" with every groups map, the account-level requireMention
\* unset or false, and the history off or at its largest limit.
ProbeCfgs ==
    {KookCfg(Some("open"), None, gs, rm, None, None, hl) :
        gs \in GroupsMaps, rm \in {None, Some(FALSE)}, hl \in {0, MaxLimit}}

\* In channel 11 a message that mentions nobody and one that mentions the
\* bot, in channel 12 one that mentions the bot, and a message of the bot.
ProbeEvents ==
    {KookEvent("GROUP", 1, "11", "31", "m1", "21", {}),
     KookEvent("GROUP", 9, "11", "32", "m1", "21", {"bot"}),
     KookEvent("GROUP", 9, "12", "31", "m2", "21", {"bot"}),
     KookEvent("GROUP", 1, "11", "bot", "m1", "21", {})}

InitProbe ==
    /\ pc = "fetchBotId"
    /\ aborted = FALSE
    /\ botId = "undefined"
    /\ probes = 0
    /\ sn = 0
    /\ sessionId = ""
    /\ reconnectAttempt = 0
    /\ waitMs = 0
    /\ gwFetches = 0
    /\ nconn = 0
    /\ conns = [i \in 1..MaxConn |-> NoConn]
    /\ lastExit = "none"
    /\ pingOut = -1
    /\ account = ValidAccount
    /\ dispatchOut = <<>>
    /\ cfg \in ProbeCfgs
    /\ HandlerIdle

NextProbe ==
    \/ \E b \in BotIds : FetchBotIdDone(b)
    \/ GatewayOk
    \/ \E i \in 1..MaxConn :
          \/ WsOpen(i)
          \/ RecvHello(i, "s1")
          \/ \E e \in ProbeEvents :
                \E failAt \in FailChoices(e) :
                    RecvEventHandled(i, FALSE, 0, e, failAt)
    \/ \E key \in TaskKeys, ok \in BOOLEAN, logged \in BOOLEAN :
          DispatchDone(key, ok, logged)

SpecProbe == InitProbe /\ [][NextProbe]_vars

(***************************************************************************)
(* sendMessageKook (probe.ts 51-136) and logoutAccount (channel.ts) on     *)
(* their own: the account is drawn, every call draws a target and the isDm *)
(* flag and returns to the event loop at its await, and the answer of its  *)
(* REST call is drawn when it comes.  A target is the text between its     *)
(* colons, segment by segment, with or without white space in front of it  *)
(* and behind it.                                                          *)
(***************************************************************************)

\* A 24-digit hexadecimal chat code.
ChatCode == "0123456789abcdef01234567"

Target(lead, segs, trail) == [lead |-> lead, segs |-> segs, trail |-> trail]

\* What stands in front of the id in the targets drawn.
TargetPrefixes ==
    {<<>>, <<"user">>, <<"kook", "user">>, <<"kook", "channel">>, <<"KOOK", "User">>}

\* The ids drawn: a user or channel, a chat code, nothing.
TargetIds == {"31", ChatCode, ""}

\* The targets drawn: user 31 behind every prefix, every id on its own, a
\* chat code behind user:, a prefix without an id, and white space in front
\* of a prefixed target and behind a bare id.
Targets ==
    {Target(FALSE, p \o <<"31">>, FALSE) : p \in TargetPrefixes}
    \cup {Target(FALSE, <<id>>, FALSE) : id \in TargetIds}
    \cup {Target(FALSE, <<"user", ChatCode>>, FALSE),
          Target(FALSE, <<"kook", "">>, FALSE),
          Target(TRUE, <<"kook", "user", "31">>, FALSE),
          Target(FALSE, <<"31">>, TRUE)}

\* The calls drawn, <<to, isDm>>: every target without the flag, and with it
\* the targets whose call the flag changes and the `user:` form as deliver
\* passes it.
SendInputs ==
    {<<to, FALSE>> : to \in Targets}
    \cup {<<Target(FALSE, segs, FALSE), TRUE>> :
            segs \in {<<"31">>, <<ChatCode>>, <<"kook", "channel", "31">>,
                      <<"user", "31">>}}

\* The lower-case form of a segment, for the /i flag of the patterns.
Lower(w) ==
    CASE w = "KOOK" -> "kook"
      [] w = "User" -> "user"
      [] OTHER -> w

\* `.replace(/^kook:(channel|user|dm|group):/i, "")`
StripKind(segs) ==
    IF /\ Len(segs) >= 3
       /\ Lower(segs[1]) = "kook"
       /\ Lower(segs[2]) \in {"channel", "user", "dm", "group"}
    THEN SubSeq(segs, 3, Len(segs))
    ELSE segs

\* `.replace(/^kook:/i, "")`
StripKook(segs) ==
    IF Len(segs) >= 2 /\ Lower(segs[1]) = "kook"
    THEN SubSeq(segs, 2, Len(segs))
    ELSE segs

\* The text of a sequence of segments.
RECURSIVE Join(_)
Join(segs) ==
    IF Len(segs) = 1 THEN segs[1]
    ELSE segs[1] \o ":" \o Join(Tail(segs))

\* normalizeTarget(target): both patterns are anchored at the start of the
\* text, so white space in front keeps them from matching; trim() comes last.
normalizeTarget(target) ==
    Join(IF target.lead THEN target.segs
         ELSE StripKook(StripKind(target.segs)))

\* to.startsWith(prefix + ":")
StartsWith(to, prefix) ==
    /\ ~to.lead
    /\ Len(to.segs) > Len(prefix)
    /\ \A k \in 1..Len(prefix) : to.segs[k] = prefix[k]

\* /^[a-f0-9]{24,}$/i.test(targetId)
IsChatCode(targetId) == targetId = ChatCode

\* A REST send call: the endpoint and the target_id or chat_code of its body.
RestCall(api, targetId, chatCode) ==
    [api |-> api, target_id |-> targetId, chat_code |-> chatCode]

SendResult(to, isDm, r, calls, chatId) ==
    [to |-> Some(to), isDm |-> isDm, result |-> r, calls |-> calls,
     chatId |-> chatId]

\* The REST call sendMessageKook makes for a target.
SendCall(to, isDm) ==
    LET targetId == normalizeTarget(to)
        isDirectMessage == \/ isDm
                           \/ StartsWith(to, <<"user">>)
                           \/ StartsWith(to, <<"kook", "user">>)
    IN  IF isDirectMessage
        THEN IF IsChatCode(targetId)
             THEN RestCall("sendDirectMessage", None, Some(targetId))
             ELSE RestCall("sendDirectMessage", Some(targetId), None)
        ELSE RestCall("sendChannelMessage", Some(targetId), None)

\* What sendMessageKook throws before it makes its REST call, "none" when it
\* makes the call.
SendThrown(acc, to) ==
    IF ~Configured(acc) \/ acc.token = "" THEN "notConfigured"
    ELSE IF normalizeTarget(to) = "" THEN "invalidTarget"
    ELSE "none"

\* A call of sendMessageKook at `await sendDirectMessage / sendChannelMessage`.
\* kind is its caller ("send": none modelled, "deliver", "media"), rest the
\* texts the caller sends when this call has returned, dispatcher the
\* dispatcher whose deliver made the call.
Request(kind, to, isDm, rest, dispatcher) ==
    [kind |-> kind, to |-> to, isDm |-> isDm, call |-> SendCall(to, isDm),
     rest |-> rest, dispatcher |-> dispatcher]

\* How the REST call ends: code 0 with data, another code, code 0 without
\* data (`res.data.msg_id` throws), or fetch / res.json() rejects.
Answers == {"ok", "code", "noData", "failed"}

\* What the call req returns or throws on the answer; every result but
\* "sent" is thrown.
SendAnswered(req, ans) ==
    SendResult(req.to, req.isDm,
               CASE ans = "ok" -> "sent"
                 [] ans = "code" -> "sendFailed"
                 [] ans = "noData" -> "noData"
                 [] OTHER -> "requestFailed",
               <<req.call>>,
               IF ans = "ok" THEN Some(normalizeTarget(req.to)) ELSE None)

\* sendMessageKook({cfg, to, text, replyToMessageId, accountId, isDm}) up to
\* its await, with base the calls pending and last the result on record: the
\* account is resolved now; the call throws at once or joins the pending.
SendIssue(base, last, kind, to, isDm, rest, dispatcher) ==
    IF SendThrown(account, to) # "none"
    THEN /\ sends' = base
         /\ sendOut' = SendResult(to, isDm, SendThrown(account, to), <<>>, None)
    ELSE /\ sends' = base (+) SetToBag({Request(kind, to, isDm, rest, dispatcher)})
         /\ sendOut' = last

\* A call of sendMessageKook by a caller the model does not follow.
SendMessageKook(to, isDm) ==
    /\ BagCardinality(sends) < MaxSends
    /\ SendIssue(sends, sendOut, "send", to, isDm, <<>>, <<>>)
    /\ dispatchOut' = <<>>
    /\ pingOut' = -1
    /\ UNCHANGED <<account, logoutOut, dispatchers, botId, probes, cfg, chatHistories,
                   tasks, out, mentionOut, mediaOut>>
    /\ UNCHANGED <<pc, aborted, sn, sessionId, reconnectAttempt, waitMs,
                   gwFetches, nconn, conns, lastExit>>

\* The REST call of the pending call req is answered: the call returns or
\* throws, and a caller that awaited it goes on in the same turn: sendMedia
\* and the loop of deliver make their next call of sendMessageKook after a
\* result, and end with the exception after a throw.
SendMessageKookDone(req, ans) ==
    /\ BagIn(req, sends)
    /\ IF ans = "ok" /\ req.rest # <<>>
       THEN /\ SendIssue(sends (-) SetToBag({req}), SendAnswered(req, ans),
                         req.kind, req.to, req.isDm, Tail(req.rest),
                         req.dispatcher)
            /\ mediaOut' = IF req.kind = "media"
                           THEN [mediaOut EXCEPT !.sent = @ \o <<Head(req.rest)>>]
                           ELSE mediaOut
       ELSE /\ sends' = sends (-) SetToBag({req})
            /\ sendOut' = SendAnswered(req, ans)
            /\ UNCHANGED mediaOut
    /\ dispatchOut' = <<>>
    /\ pingOut' = -1
    /\ UNCHANGED <<account, logoutOut, dispatchers, botId, probes, cfg, chatHistories,
                   tasks, out, mentionOut>>
    /\ UNCHANGED <<pc, aborted, sn, sessionId, reconnectAttempt, waitMs,
                   gwFetches, nconn, conns, lastExit>>

\* What logoutAccount returns.
LogoutResult(envToken) ==
    [cleared |-> <<"token">>, envToken |-> envToken, loggedOut |-> TRUE]

\* kookPlugin.gateway.logoutAccount({accountId, cfg}) up to
\* `await core.config.writeConfigFile(newCfg)`.  For the default account
\* (named = FALSE) the token is deleted from a copy of the section and the
\* copy is handed to the write: the cfg in hand keeps its token.  For a named
\* account `accounts` is a shallow copy, so `delete accounts[accountId].token`
\* takes the token out of the cfg in hand as well; an account the section
\* does not list (exists = FALSE) is left alone, nothing is written and the
\* call returns.  Without a runtime getKookRuntime throws and the call
\* rejects before it touches anything.  One call at a time.
LogoutAccount(named, exists, hasRuntime) ==
    /\ logoutOut.status # "pending"
    /\ IF ~hasRuntime
       THEN /\ logoutOut' = [status |-> "rejected", named |-> named,
                             written |-> None, result |-> None]
            /\ UNCHANGED account
       ELSE IF ~named
       THEN /\ logoutOut' = [status |-> "pending", named |-> FALSE,
                             written |-> Some([account EXCEPT !.token = ""]),
                             result |-> None]
            /\ UNCHANGED account
       ELSE IF exists
       THEN /\ account' = [account EXCEPT !.token = ""]
            /\ logoutOut' = [status |-> "pending", named |-> TRUE,
                             written |-> Some(account'), result |-> None]
       ELSE /\ logoutOut' = [status |-> "returned", named |-> TRUE,
                             written |-> None,
                             result |-> Some(LogoutResult(FALSE))]
            /\ UNCHANGED account
    /\ dispatchOut' = <<>>
    /\ pingOut' = -1
    /\ UNCHANGED <<sends, dispatchers, botId, probes, cfg, chatHistories, tasks, out,
                   sendOut, mentionOut, mediaOut>>
    /\ UNCHANGED <<pc, aborted, sn, sessionId, reconnectAttempt, waitMs,
                   gwFetches, nconn, conns, lastExit>>

\* writeConfigFile settles: the call returns, with envToken telling whether
\* KOOK_BOT_TOKEN is set when the default account was logged out, or rejects
\* with the write's error.
LogoutAccountDone(ok, envToken) ==
    /\ logoutOut.status = "pending"
    /\ envToken => ~logoutOut.named
    /\ logoutOut' = IF ok
                    THEN [logoutOut EXCEPT !.status = "returned",
                                           !.result = Some(LogoutResult(envToken))]
                    ELSE [logoutOut EXCEPT !.status = "rejected"]
    /\ dispatchOut' = <<>>
    /\ pingOut' = -1
    /\ UNCHANGED <<account, sends, dispatchers, botId, probes, cfg, chatHistories,
                   tasks, out, sendOut, mentionOut, mediaOut>>
    /\ UNCHANGED <<pc, aborted, sn, sessionId, reconnectAttempt, waitMs,
                   gwFetches, nconn, conns, lastExit>>

InitSend ==
    /\ pc = "connected"
    /\ aborted = FALSE
    /\ botId = "bot"
    /\ probes = 1
    /\ sn = 0
    /\ sessionId = "s1"
    /\ reconnectAttempt = 0
    /\ waitMs = 0
    /\ gwFetches = 1
    /\ nconn = 1
    /\ conns = [i \in 1..MaxConn |->
                  IF i = 1
                  THEN [NewConn(1) EXCEPT !.ws = "open", !.listening = TRUE,
                                          !.wired = TRUE,
                                          !.heartbeatTimer = HEARTBEAT_INTERVAL_MS,
                                          !.tickers = 1]
                  ELSE NoConn]
    /\ lastExit = "none"
    /\ pingOut = -1
    /\ account \in {a \in Accounts : a.enabled}
    /\ dispatchOut = <<>>
    /\ cfg = DefaultCfg
    /\ HandlerIdle

NextSend ==
    \/ \E in \in SendInputs : SendMessageKook(in[1], in[2])
    \/ \E req \in BagToSet(sends), ans \in Answers : SendMessageKookDone(req, ans)
    \/ \E named \in BOOLEAN, exists \in BOOLEAN, hasRuntime \in BOOLEAN :
          LogoutAccount(named, exists, hasRuntime)
    \/ \E ok \in BOOLEAN, envToken \in BOOLEAN : LogoutAccountDone(ok, envToken)

SpecSend == InitSend /\ [][NextSend]_vars

(***************************************************************************)
(* The outbound adapter's sendMedia (outbound.ts): the text first, then    *)
(* the media URL as a link, each through sendMessageKook and each awaited; *)
(* logoutAccount may run in between.  The calls of sendMedia are made one  *)
(* after the other.                                                        *)
(***************************************************************************)

\* The texts drawn: absent, empty, blank, a word; and the media URLs: absent,
\* empty, a link.
MediaTexts == {None, Some(""), Some(" "), Some("hi")}
MediaUrls == {None, Some(""), Some("http://m")}

\* The targets drawn: user 31 behind the prefixes sendMedia tells apart, and
\* a target without an id.
MediaTargets ==
    {Target(FALSE, p \o <<"31">>, FALSE) :
        p \in {<<>>, <<"user">>, <<"kook", "user">>, <<"channel">>}}
    \cup {Target(FALSE, <<"">>, FALSE)}

\* text.trim() for the texts drawn.
Trim(t) == IF t = " " THEN "" ELSE t

\* sendMedia({cfg, to, text, mediaUrl, accountId}) up to its first await: the
\* call of sendMessageKook for the text when there is one, else for the
\* media URL or the text again.  mediaOut.sent lists the texts the call has
\* handed to sendMessageKook so far; what follows the first answer is in
\* SendMessageKookDone.
SendMedia(to, text, mediaUrl) ==
    /\ \A r \in BagToSet(sends) : r.kind # "media"
    /\ BagCardinality(sends) < MaxSends
    /\ LET isDm == StartsWith(to, <<"user">>) \/ StartsWith(to, <<"kook", "user">>)
           first == IF text # None /\ Trim(text[1]) # "" THEN <<text[1]>> ELSE <<>>
           second == IF mediaUrl # None /\ mediaUrl[1] # ""
                     THEN mediaUrl[1]
                     ELSE Opt(text, "")
       IN  /\ SendIssue(sends, sendOut, "media", to, isDm,
                        IF first # <<>> THEN <<second>> ELSE <<>>, <<>>)
           /\ mediaOut' = [text |-> text, mediaUrl |-> mediaUrl,
                           sent |-> IF first # <<>> THEN first ELSE <<second>>]
    /\ dispatchOut' = <<>>
    /\ pingOut' = -1
    /\ UNCHANGED <<account, logoutOut, dispatchers, botId, probes, cfg, chatHistories,
                   tasks, out, mentionOut>>
    /\ UNCHANGED <<pc, aborted, sn, sessionId, reconnectAttempt, waitMs,
                   gwFetches, nconn, conns, lastExit>>

InitMedia == InitSend

NextMedia ==
    \/ \E to \in MediaTargets, text \in MediaTexts, mediaUrl \in MediaUrls :
          SendMedia(to, text, mediaUrl)
    \/ \E req \in BagToSet(sends), ans \in Answers : SendMessageKookDone(req, ans)
    \/ \E named \in BOOLEAN, exists \in BOOLEAN, hasRuntime \in BOOLEAN :
          LogoutAccount(named, exists, hasRuntime)
    \/ \E ok \in BOOLEAN, envToken \in BOOLEAN : LogoutAccountDone(ok, envToken)

SpecMedia == InitMedia /\ [][NextMedia]_vars

(***************************************************************************)
(* The replies of a dispatch: handleKookMessage creates the reply          *)
(* dispatcher with the event's target_id and isDm = !isGroup and hands it  *)
(* to the host with the dispatch; the host calls its deliver with a reply  *)
(* whenever it has one, and deliver sends the reply chunk by chunk, back   *)
(* in the event loop at every `await sendMessageKook`.                     *)
(***************************************************************************)

\* Every group and every sender is let in, and no mention is asked for.
ReplyCfg ==
    KookCfg(Some("open"), None, NoGroups, Some(FALSE), Some("open"), None, MaxLimit)

\* A direct message of user 31 to the bot (target_id is the bot's id) and a
\* message of user 31 in channel 11.
ReplyEvents ==
    {KookEvent("PERSON", 1, "bot", "31", "m1", NoGuild, {}),
     KookEvent("GROUP", 1, "11", "31", "m1", "21", {})}

\* What the step draws for failAt: getKookRuntime throws, or nothing does
\* before the await.
ReplyFailChoices(e) == IF Gate(cfg, botId, e) = "dispatch" THEN {0, 3} ELSE {3}

\* deliver(payload) of dispatcher d, for a text of n chunks, up to its first
\* await: a blank text (n = 0) is skipped; else the first chunk is handed to
\* sendMessageKook, and every later chunk when the one before it was sent
\* (SendMessageKookDone), with the same `to` and isDm.
Deliver(d, n) ==
    /\ d \in dispatchers
    /\ LET to == IF d.isDm THEN Target(FALSE, <<"user", d.channelId>>, FALSE)
                 ELSE Target(FALSE, <<d.channelId>>, FALSE)
       IN  IF n = 0
           THEN UNCHANGED <<sends, sendOut>>
           ELSE /\ BagCardinality(sends) < MaxSends
                /\ SendIssue(sends, sendOut, "deliver", to, d.isDm,
                             [k \in 1..(n - 1) |-> "chunk"], <<d>>)
    /\ dispatchOut' = <<>>
    /\ pingOut' = -1
    /\ UNCHANGED <<account, logoutOut, dispatchers, botId, probes, cfg, chatHistories,
                   tasks, out, mentionOut, mediaOut>>
    /\ UNCHANGED <<pc, aborted, sn, sessionId, reconnectAttempt, waitMs,
                   gwFetches, nconn, conns, lastExit>>

InitReply ==
    /\ pc = "connected"
    /\ aborted = FALSE
    /\ botId \in BotIds
    /\ probes = 1
    /\ sn = 0
    /\ sessionId = "s1"
    /\ reconnectAttempt = 0
    /\ waitMs = 0
    /\ gwFetches = 1
    /\ nconn = 1
    /\ conns = [i \in 1..MaxConn |->
                  IF i = 1
                  THEN [NewConn(1) EXCEPT !.ws = "open", !.listening = TRUE,
                                          !.wired = TRUE,
                                          !.heartbeatTimer = HEARTBEAT_INTERVAL_MS,
                                          !.tickers = 1]
                  ELSE NoConn]
    /\ lastExit = "none"
    /\ pingOut = -1
    /\ account = ValidAccount
    /\ dispatchOut = <<>>
    /\ cfg = ReplyCfg
    /\ HandlerIdle

NextReply ==
    \/ \E i \in 1..MaxConn : \E e \in ReplyEvents :
          \E failAt \in ReplyFailChoices(e) :
              RecvEventHandled(i, FALSE, 0, e, failAt)
    \/ \E d \in dispatchers, n \in 0..MaxChunks : Deliver(d, n)
    \/ \E req \in BagToSet(sends), ans \in Answers : SendMessageKookDone(req, ans)
    \/ \E key \in TaskKeys, ok \in BOOLEAN, logged \in BOOLEAN :
          DispatchDone(key, ok, logged)

SpecReply == InitReply /\ [][NextReply]_vars

(***************************************************************************)
(* The plugin's groups adapter, which answers the host's question whether  *)
(* a group asks for a mention, from the same account configuration         *)
(* handleKookMessage reads.                                                *)
(***************************************************************************)

\* resolveRequireMention({cfg, accountId, groupId}).  A configuration without
\* a single group entry stands for one whose groups map is not set.
resolveRequireMention(c, groupId) ==
    IF c.groups = NoGroups
    THEN TRUE
    ELSE LET groupConfig == IF c.groups[groupId] # None
                            THEN c.groups[groupId]
                            ELSE c.groups["*"]
         IN  Opt(IF groupConfig = None THEN None ELSE groupConfig[1].requireMention,
                 Opt(c.requireMention, TRUE))

\* Configurations whose groups map has the "*" entry only.
WildcardCfgs ==
    {KookCfg(Some("open"), None,
             [NoGroups EXCEPT !["*"] = Some(GroupConfig(None, Some(r)))],
             rm, None, None, MaxLimit) :
        r \in BOOLEAN, rm \in {None, Some(TRUE), Some(FALSE)}}

\* A call of the adapter for group id groupId.
ResolveRequireMention(groupId) ==
    /\ mentionOut' = [groupId |-> Some(groupId),
                      result |-> Some(resolveRequireMention(cfg, groupId))]
    /\ dispatchOut' = <<>>
    /\ pingOut' = -1
    /\ UNCHANGED <<account, logoutOut, sends, dispatchers>>
    /\ UNCHANGED <<botId, probes, cfg, chatHistories, tasks, out,
                   sendOut,
                   mediaOut>>
    /\ UNCHANGED <<pc, aborted, sn, sessionId, reconnectAttempt, waitMs,
                   gwFetches, nconn, conns, lastExit>>

InitMention ==
    /\ pc = "connected"
    /\ aborted = FALSE
    /\ botId \in BotIds
    /\ probes = 1
    /\ sn = 0
    /\ sessionId = "s1"
    /\ reconnectAttempt = 0
    /\ waitMs = 0
    /\ gwFetches = 1
    /\ nconn = 1
    /\ conns = [i \in 1..MaxConn |->
                  IF i = 1
                  THEN [NewConn(1) EXCEPT !.ws = "open", !.listening = TRUE,
                                          !.wired = TRUE,
                                          !.heartbeatTimer = HEARTBEAT_INTERVAL_MS,
                                          !.tickers = 1]
                  ELSE NoConn]
    /\ lastExit = "none"
    /\ pingOut = -1
    /\ account = [enabled |-> TRUE, token |-> "tok"]
    /\ dispatchOut = <<>>
    /\ cfg \in Cfgs \cup WildcardCfgs
    /\ HandlerIdle

NextMention == \E groupId \in Channels : ResolveRequireMention(groupId)

SpecMention == InitMention /\ [][NextMention]_vars

(***************************************************************************)
(* Properties of the gateway monitor.                                      *)
(***************************************************************************)

\* C1: lastSequence never decreases from one state to the next, except when
\* a Reconnect (s = 5) frame resets it to 0.
C1_SequenceMonotonic ==
    [][sn' >= sn \/ (sn' = 0 /\ \E i \in 1..MaxConn : RecvReconnect(i))]_vars

\* C2: no failure rejects the supervisor's promise, a failed gateway fetch
\* included, and the promise settles only after the abort signal has fired.
C2_FailuresRecovered ==
    /\ pc # "rejected"
    /\ pc = "resolved" => aborted

\* C3: the attempt counter changes only by +1 when a reconnect is scheduled
\* and by a reset to 0 when a Hello frame is received; a socket that merely
\* opens does not reset it.
C3_AttemptResetOnlyOnHello ==
    [][reconnectAttempt' # reconnectAttempt =>
          \/ reconnectAttempt' = reconnectAttempt + 1 /\ pc' = "backoff"
          \/ /\ reconnectAttempt' = 0
             /\ \E i \in 1..MaxConn, sid \in SessionIds \cup {NoSid} :
                   RecvHello(i, sid)]_vars

\* C4: whatever frames a connection received and whichever way it ended, once
\* it is torn down and its socket closed, its hello timer is not armed and no
\* heartbeat interval started for it is armed.
C4_NoTimerAfterTeardown ==
    \A i \in 1..MaxConn :
        conns[i].ws = "closed" =>
            conns[i].helloTimer = 0 /\ conns[i].tickers = 0

\* C5: once the abort signal has fired while the supervisor's promise was
\* pending, the promise is never rejected.
C5_CancelNeverRejects ==
    [][(aborted /\ pc # "rejected") => pc' # "rejected"]_vars

\* C6: after the abort signal has fired no socket is created, no gateway fetch
\* is started and no reconnect is scheduled; and the step in which it fires
\* closes every socket that is connecting or open and leaves none of its
\* timers armed.
C6_HaltAfterCancel ==
    [][/\ aborted =>
            /\ nconn' = nconn
            /\ gwFetches' = gwFetches
            /\ pc # "backoff" => pc' # "backoff"
            /\ reconnectAttempt' = reconnectAttempt
            /\ \A i \in 1..MaxConn : conns'[i].sched = conns[i].sched
       /\ (~aborted /\ aborted') =>
            \A i \in 1..MaxConn :
                conns[i].ws \in {"connecting", "open"} =>
                    /\ conns'[i].ws \in {"closing", "aborting"}
                    /\ conns'[i].helloTimer = 0
                    /\ conns'[i].tickers = 0]_vars

\* C7: when the abort signal fires while a connection awaits Hello, that step
\* closes the socket, clears the hello timer and resolves the promise without
\* scheduling a reconnect; and from then on nothing - the socket's close event
\* included - schedules a reconnect, re-arms the timer or unsettles the promise.
C7_CancelAwaitingHello ==
    [][/\ \A i \in 1..MaxConn :
            (~aborted /\ aborted' /\ AwaitingHello(conns[i])) =>
                /\ conns'[i].ws \in {"closing", "aborting"}
                /\ conns'[i].helloTimer = 0
                /\ conns'[i].resolved
                /\ conns'[i].sched = 0
                /\ pc' = "resolved"
                /\ reconnectAttempt' = reconnectAttempt
       /\ (aborted /\ lastExit = "abortAwaitingHello") =>
            /\ pc' = "resolved"
            /\ lastExit' = lastExit
            /\ reconnectAttempt' = reconnectAttempt
            /\ nconn' = nconn
            /\ \A i \in 1..MaxConn :
                  /\ conns'[i].sched = conns[i].sched
                  /\ conns'[i].helloTimer = 0
                  /\ conns'[i].ws \notin {"connecting", "open"}]_vars

\* C7 witness: the connection was cancelled while it awaited Hello and its
\* socket's close event has been delivered since.
C7_Witness ==
    /\ aborted
    /\ lastExit = "abortAwaitingHello"
    /\ pc = "resolved"
    /\ nconn = 2
    /\ conns[2].wired /\ conns[2].ws = "closed" /\ conns[2].resolved
    /\ conns[2].sched = 0
    /\ reconnectAttempt = 0

\* C8: when the 6000 ms hello timer fires on a socket that has opened, the
\* socket is closed and a reconnect is scheduled as attempt 1 with a wait of
\* 2000 ms.
C8_HelloTimeoutAttemptOne ==
    [][\A i \in 1..MaxConn :
          (/\ conns[i].ws = "open"
           /\ conns[i].helloTimer = 6000
           /\ HelloTimeout(i)) =>
              /\ conns'[i].ws = "closing"
              /\ conns'[i].helloTimer = 0
              /\ conns'[i].sched = 1
              /\ reconnectAttempt' = 1
              /\ waitMs' = 2000
              /\ pc' = "backoff"]_vars

\* C8 witness: the second socket of the run opened after a failed first
\* connection, got no Hello, and its hello timer has scheduled attempt 1.
C8_Witness ==
    /\ nconn = 2
    /\ conns[1].sched = 1
    /\ conns[2].ws = "closing" /\ conns[2].sched = 1
    /\ lastExit = "helloTimeout"
    /\ pc = "backoff"
    /\ reconnectAttempt = 1
    /\ waitMs = 2000

\* C9: the wait of attempt n is min(2000 * 2^(n-1), 60000) ms: 2000, 4000,
\* 8000, 16000, 32000 for n = 1..5 and 60000 from n = 6 on.
C9_BackoffTable ==
    pc = "backoff" =>
        /\ reconnectAttempt >= 1
        /\ waitMs = CASE reconnectAttempt = 1 -> 2000
                      [] reconnectAttempt = 2 -> 4000
                      [] reconnectAttempt = 3 -> 8000
                      [] reconnectAttempt = 4 -> 16000
                      [] reconnectAttempt = 5 -> 32000
                      [] OTHER -> 60000

\* C9 witness: a reconnect scheduled as attempt 7 waits the capped 60000 ms.
C9_Witness ==
    pc = "backoff" /\ reconnectAttempt = 7 /\ waitMs = 60000

\* C10: a Reconnect frame received while Live closes the socket, leaves no
\* timer of it armed, empties sessionId, zeroes lastSequence and schedules
\* exactly one reconnect; and every socket is created with the URL of a
\* gateway fetch made after the previous socket was created.
C10_ReconnectWhileLive ==
    [][/\ \A i \in 1..MaxConn :
            (Live(conns[i]) /\ RecvReconnect(i)) =>
                /\ conns'[i].ws = "closing"
                /\ conns'[i].helloTimer = 0
                /\ conns'[i].heartbeatTimer = 0
                /\ conns'[i].tickers = 0
                /\ sessionId' = ""
                /\ sn' = 0
                /\ conns'[i].sched = conns[i].sched + 1
                /\ pc' = "backoff"
       /\ nconn' = nconn + 1 =>
            /\ conns'[nconn'].url = gwFetches
            /\ \A j \in 1..nconn : conns[j].url < gwFetches]_vars

(***************************************************************************)
(* Properties of the entry point and of the admission.                     *)
(***************************************************************************)

\* C11: called for a named account that is disabled or has no token, the
\* entry point rejects in its first step, and so does connectWebSocket for
\* a listed account without a token, in the step that follows the import of
\* the account list; for such an account the run never leaves the start for
\* a probe, a gateway fetch, a backoff or a socket.
C11_FatalConfiguration ==
    [][/\ (/\ MonitorKookProvider(TRUE, TRUE)
           /\ (~account.enabled \/ account.token = "")) =>
                pc' = "rejected"
       /\ (MonitorAllAccounts(TRUE) /\ account.token = "") =>
                pc' = "rejected"
       /\ (~account.enabled \/ account.token = "") =>
            /\ pc' \in {"start", "importAccounts", "rejected", "resolved"}
            /\ pc = "rejected" => pc' = "rejected"
            /\ gwFetches' = 0
            /\ nconn' = 0
            /\ \A i \in 1..MaxConn : conns'[i].ws = "none"]_vars

\* C11 witness: connectWebSocket was entered for an enabled account without
\* a token and rejected; nothing was fetched and no socket exists.
C11_Witness ==
    /\ account.enabled /\ account.token = ""
    /\ pc = "rejected"
    /\ lastExit = "noToken"
    /\ gwFetches = 0
    /\ nconn = 0

\* C12: in every reachable state of the session, none of the events the
\* last step handed to handleKookMessage was written by the bot id the probe
\* found: an Event frame of that author never adds to the hand-overs.
C12_SelfEchoNeverDispatched ==
    botId # "undefined" =>
        \A k \in 1..Len(dispatchOut) : dispatchOut[k].author_id # botId

\* C12 witness: the second socket of a run whose probe found the bot id is
\* live and its last frame, an Event with sn = MaxSn, was not handed over.
C12_Witness ==
    /\ botId = "bot"
    /\ nconn = 2
    /\ Live(conns[2])
    /\ sn = MaxSn
    /\ dispatchOut = <<>>
    /\ pingOut = -1

\* C13: an Event frame is handed to handleKookMessage, as the one event of
\* the step, iff its author is not the bot id found and its type is 1, 9 or
\* 10; events of type 255 and of any other type are not handed over; and
\* whether handed over or not, a frame that carries an sn sets lastSequence.
C13_AdmissionTable ==
    [][\A i \in 1..MaxConn : \A f \in EventFrames(AdmissionEvents) :
          EventFrame(i, f[1], f[2], f[3]) =>
              LET e == f[3]
                  selfEcho == botId # "undefined" /\ e.author_id = botId
              IN  /\ dispatchOut' \in {<<>>, <<e>>}
                  /\ (dispatchOut' = <<e>>) <=>
                         (~selfEcho /\ e.type \in {1, 9, 10})
                  /\ e.type \in {255, 2} => dispatchOut' = <<>>
                  /\ f[1] => sn' = f[2]]_vars

\* C13 witness: a card message (type 10) of a user was handed over by a
\* frame that also set lastSequence to MaxSn.
C13_Witness ==
    /\ Len(dispatchOut) = 1
    /\ dispatchOut[1].type = 10
    /\ dispatchOut[1].author_id = "31"
    /\ sn = MaxSn

(***************************************************************************)
(* Properties of handleKookMessage.                                        *)
(***************************************************************************)

\* C14: under groupPolicy "disabled" every call of handleKookMessage for a
\* group event returns at the group check - no collaborator is called, no
\* dispatch starts, no buffer changes - whatever the allow-list, the groups
\* map, requireMention and the event's mentions are; so no buffer ever holds
\* an entry and no group dispatch is ever in flight.
C14_DisabledRejectsGroups ==
    /\ [](cfg.groupPolicy = Some("disabled") =>
            /\ chatHistories = NoHistories
            /\ \A ch \in Channels : tasks[ch] = 0)
    /\ [][\A e \in BotEvents :
            (/\ e.channel_type = "GROUP"
             /\ cfg.groupPolicy = Some("disabled")
             /\ HandleKookMessage(e, Len(out'.calls))) =>
                /\ out'.result = "groupNotAllowed"
                /\ out'.calls = <<>>
                /\ chatHistories' = chatHistories
                /\ tasks' = tasks]_vars

\* C14 witness: a group event was rejected under "disabled" although the
\* allow-list names its guild and its channel's group setting asks for no
\* mention.
C14_Witness ==
    /\ cfg.groupPolicy = Some("disabled")
    /\ cfg.groupAllowFrom = Some(<<Str("21")>>)
    /\ cfg.groups["11"] = Some(GroupConfig(None, Some(FALSE)))
    /\ out.result = "groupNotAllowed"

\* C15 as stated: under "open" every group event passes the group check,
\* under "allowlist" exactly those an entry of which, as a string, equals the
\* guild id or the channel id; and an event that passes always reaches the
\* mention gate (it is buffered or its dispatch is started).
C15_GroupAccessCheck ==
    [][\A e \in BotEvents :
          (/\ e.channel_type = "GROUP"
           /\ HandleKookMessage(e, Len(out'.calls))) =>
              LET policy == Opt(cfg.groupPolicy, "allowlist")
                  list == Opt(cfg.groupAllowFrom, <<>>)
                  match == \E k \in 1..Len(list) :
                              \/ String(list[k]) = e.guild_id
                              \/ String(list[k]) = e.target_id
                  accepted == \/ policy = "open"
                              \/ policy = "allowlist" /\ match
              IN  /\ accepted <=> out'.result # "groupNotAllowed"
                  /\ accepted =>
                        out'.result \in {"recorded", "dispatching", "failed"}]_vars

\* C15 amended: the same group check; an event that passes reaches the
\* mention gate unless the group setting of its channel (or, when the
\* channel has none, of its guild) has enabled = false, and then the call
\* returns without buffering or dispatching it.
C15_GroupAccessCheckAmended ==
    [][\A e \in BotEvents :
          (/\ e.channel_type = "GROUP"
           /\ HandleKookMessage(e, Len(out'.calls))) =>
              LET policy == Opt(cfg.groupPolicy, "allowlist")
                  list == Opt(cfg.groupAllowFrom, <<>>)
                  match == \E k \in 1..Len(list) :
                              \/ String(list[k]) = e.guild_id
                              \/ String(list[k]) = e.target_id
                  accepted == \/ policy = "open"
                              \/ policy = "allowlist" /\ match
                  gc == IF cfg.groups[e.target_id] # <<>>
                        THEN cfg.groups[e.target_id]
                        ELSE cfg.groups[IF e.guild_id = NoGuild THEN ""
                                        ELSE e.guild_id]
                  off == gc # <<>> /\ gc[1].enabled = <<FALSE>>
              IN  /\ accepted <=> out'.result # "groupNotAllowed"
                  /\ (accepted /\ ~off) =>
                        out'.result \in {"recorded", "dispatching", "failed"}
                  /\ (accepted /\ off) =>
                        /\ out'.result = "groupDisabled"
                        /\ out'.calls = <<>>
                        /\ chatHistories' = chatHistories
                        /\ tasks' = tasks]_vars

\* C15 witness: under "allowlist" the numeric entry 11 let a message of
\* channel 11 through to the mention gate, which buffered it.
C15_Witness ==
    /\ cfg.groupPolicy = Some("allowlist")
    /\ cfg.groupAllowFrom = Some(<<Str("99"), Num(11)>>)
    /\ out.result = "recorded"
    /\ Len(chatHistories["11"]) = 1
    /\ chatHistories["12"] = <<>>

\* C16: a direct message is let in under "open" and under "pairing" (also
\* when dmPolicy is unset), and under "allowlist" iff an entry of allowFrom,
\* as a string, equals the sender id; one that is let in has its dispatch
\* started, one that is not is never dispatched.
C16_DmAccessCheck ==
    [][\A e \in BotEvents :
          (/\ e.channel_type = "PERSON"
           /\ HandleKookMessage(e, Len(out'.calls))) =>
              LET policy == Opt(cfg.dmPolicy, "pairing")
                  list == Opt(cfg.allowFrom, <<>>)
                  match == \E k \in 1..Len(list) : String(list[k]) = e.author_id
                  accepted == \/ policy \in {"open", "pairing"}
                              \/ policy = "allowlist" /\ match
              IN  /\ accepted => out'.result \in {"dispatching", "failed"}
                  /\ ~accepted =>
                        /\ out'.result = "dmNotAllowed"
                        /\ out'.calls = <<>>
                        /\ tasks' = tasks
                        /\ chatHistories' = chatHistories]_vars

\* C16 witness: under "allowlist" with the numeric entry 32 the direct
\* message of user 32 is being dispatched.
C16_Witness ==
    /\ cfg.dmPolicy = Some("allowlist")
    /\ cfg.allowFrom = Some(<<Num(32)>>)
    /\ out.result = "dispatching"
    /\ out.body = <<[sender |-> "32", messageId |-> "m1"]>>
    /\ tasks["undefined"] = 1

\* C17 as stated: a group message that passed the group check, does not
\* mention the bot, and for which a mention is required, becomes the last
\* entry of its channel's buffer (trimmed to the resolved limit); no
\* collaborator is called, no dispatch starts, no other buffer changes.
C17_UnmentionedBuffered ==
    [][\A e \in BotEvents :
          LET gc == IF cfg.groups[e.target_id] # <<>>
                    THEN cfg.groups[e.target_id]
                    ELSE cfg.groups[IF e.guild_id = NoGuild THEN "" ELSE e.guild_id]
              off == gc # <<>> /\ gc[1].enabled = <<FALSE>>
              required ==
                  IF gc # <<>> /\ gc[1].requireMention # <<>>
                  THEN gc[1].requireMention[1]
                  ELSE IF cfg.requireMention # <<>> THEN cfg.requireMention[1]
                  ELSE TRUE
              mentioned == botId # "undefined" /\ botId \in e.mention
              limit == IF cfg.historyLimit > 0 THEN cfg.historyLimit ELSE 0
              old == chatHistories[e.target_id]
              new == chatHistories'[e.target_id]
          IN  (/\ e.channel_type = "GROUP"
               /\ required /\ ~mentioned
               /\ HandleKookMessage(e, Len(out'.calls))
               /\ isGroupAllowed(Opt(cfg.groupPolicy, "allowlist"),
                                 Opt(cfg.groupAllowFrom, <<>>),
                                 GuildOrEmpty(e), e.target_id)) =>
                  /\ out'.result = "recorded"
                  /\ out'.calls = <<>>
                  /\ tasks' = tasks
                  /\ limit > 0 =>
                        /\ new # <<>>
                        /\ new[Len(new)] = Entry(e)
                        /\ Len(new) = Min(Len(old) + 1, limit)
                        /\ \A k \in 1..(Len(new) - 1) :
                              new[k] = old[Len(old) - (Len(new) - 1) + k]
                  /\ limit = 0 => new = <<>>
                  /\ \A ch \in Channels \ {e.target_id} :
                        chatHistories'[ch] = chatHistories[ch]]_vars

\* C17 amended: the same, unless the group setting of the message's channel
\* (or, when the channel has none, of its guild) has enabled = false: then
\* the call returns without buffering or dispatching the message.
C17_UnmentionedBufferedAmended ==
    [][\A e \in BotEvents :
          LET gc == IF cfg.groups[e.target_id] # <<>>
                    THEN cfg.groups[e.target_id]
                    ELSE cfg.groups[IF e.guild_id = NoGuild THEN "" ELSE e.guild_id]
              off == gc # <<>> /\ gc[1].enabled = <<FALSE>>
              required ==
                  IF gc # <<>> /\ gc[1].requireMention # <<>>
                  THEN gc[1].requireMention[1]
                  ELSE IF cfg.requireMention # <<>> THEN cfg.requireMention[1]
                  ELSE TRUE
              mentioned == botId # "undefined" /\ botId \in e.mention
              limit == IF cfg.historyLimit > 0 THEN cfg.historyLimit ELSE 0
              old == chatHistories[e.target_id]
              new == chatHistories'[e.target_id]
          IN  (/\ e.channel_type = "GROUP"
               /\ required /\ ~mentioned
               /\ HandleKookMessage(e, Len(out'.calls))
               /\ isGroupAllowed(Opt(cfg.groupPolicy, "allowlist"),
                                 Opt(cfg.groupAllowFrom, <<>>),
                                 GuildOrEmpty(e), e.target_id)) =>
                  IF off
                  THEN /\ out'.result = "groupDisabled"
                       /\ out'.calls = <<>>
                       /\ tasks' = tasks
                       /\ chatHistories' = chatHistories
                  ELSE /\ out'.result = "recorded"
                       /\ out'.calls = <<>>
                       /\ tasks' = tasks
                       /\ limit > 0 =>
                             /\ new # <<>>
                             /\ new[Len(new)] = Entry(e)
                             /\ Len(new) = Min(Len(old) + 1, limit)
                             /\ \A k \in 1..(Len(new) - 1) :
                                   new[k] = old[Len(old) - (Len(new) - 1) + k]
                       /\ limit = 0 => new = <<>>
                       /\ \A ch \in Channels \ {e.target_id} :
                             chatHistories'[ch] = chatHistories[ch]]_vars

\* C17 witness: channel 11 buffered m2 and then m1, both without a mention
\* of the bot, and nothing is in flight.
C17_Witness ==
    /\ out.result = "recorded"
    /\ chatHistories["11"] = <<[sender |-> "31", messageId |-> "m2"],
                                [sender |-> "31", messageId |-> "m1"]>>
    /\ InFlight = 0

\* C18: when a group message that mentions the bot passes the gate and no
\* step before the await throws, the body handed to dispatchReplyFromConfig
\* is the channel's buffer, entry by entry in insertion order, followed by
\* the message itself; and the step in which a group dispatch settles
\* successfully leaves that channel's buffer empty.
C18_HistoryPrependedThenCleared ==
    [][/\ \A e \in BotEvents :
            (/\ e.channel_type = "GROUP"
             /\ botId # "undefined" /\ botId \in e.mention
             /\ Gate(cfg, botId, e) = "dispatch"
             /\ HandleKookMessage(e, 3)) =>
                /\ out'.result = "dispatching"
                /\ out'.calls[3] = "dispatchReplyFromConfig"
                /\ Len(out'.body) = Len(chatHistories[e.target_id]) + 1
                /\ \A k \in 1..Len(chatHistories[e.target_id]) :
                      out'.body[k] = chatHistories[e.target_id][k]
                /\ out'.body[Len(out'.body)] =
                      [sender |-> e.author_id, messageId |-> e.msg_id]
                /\ tasks'[e.target_id] = tasks[e.target_id] + 1
       /\ \A ch \in Channels :
            \A logged \in BOOLEAN :
                DispatchDone(ch, TRUE, logged) => chatHistories'[ch] = <<>>]_vars

\* C18 witness: channel 11 had buffered m2 and m1 when a message mentioning
\* the bot arrived; its dispatch is in flight with both entries ahead of it.
C18_Witness ==
    /\ out.result = "dispatching"
    /\ out.body = <<[sender |-> "31", messageId |-> "m2"],
                    [sender |-> "31", messageId |-> "m1"],
                    [sender |-> "31", messageId |-> "m1"]>>
    /\ tasks["11"] = 1

\* C19: a buffer that holds entries becomes empty only in the step in which
\* a dispatch of its channel has resolved; and every step in which the
\* handling of an event fails - the dispatch rejects, a step behind it
\* throws, or a step before the await throws - leaves every buffer as it
\* was.
C19_ClearedOnlyAfterSuccess ==
    [][/\ \A ch \in Channels :
            (chatHistories[ch] # <<>> /\ chatHistories'[ch] = <<>>) =>
                \E logged \in BOOLEAN : DispatchDone(ch, TRUE, logged)
       /\ \A key \in TaskKeys, ok \in BOOLEAN :
            DispatchDone(key, ok, FALSE) => chatHistories' = chatHistories
       /\ \A e \in BotEvents :
            (/\ Gate(cfg, botId, e) = "dispatch"
             /\ Len(out'.calls) < 3
             /\ HandleKookMessage(e, Len(out'.calls))) =>
                /\ out'.result = "failed"
                /\ chatHistories' = chatHistories
                /\ tasks' = tasks]_vars

\* C20: no buffer ever holds more entries than max(0, historyLimit); and a
\* step that changes a buffer without emptying it appends one entry at the
\* end, keeps the order of the others and, when the buffer was full, drops
\* the oldest.
C20_HistoryBounded ==
    /\ [](\A ch \in Channels :
            Len(chatHistories[ch]) <=
                (IF cfg.historyLimit > 0 THEN cfg.historyLimit ELSE 0))
    /\ [][\A ch \in Channels :
            LET old == chatHistories[ch]
                new == chatHistories'[ch]
                limit == IF cfg.historyLimit > 0 THEN cfg.historyLimit ELSE 0
            IN  (new # old /\ new # <<>>) =>
                    /\ Len(new) = Min(Len(old) + 1, limit)
                    /\ \A k \in 1..(Len(new) - 1) :
                          new[k] = old[Len(old) - (Len(new) - 1) + k]]_vars

\* C20 witness: with a limit of 2 the buffer of channel 11 is full, m1
\* before m2, after a message was buffered.
C20_Witness ==
    /\ cfg.historyLimit = 2
    /\ out.result = "recorded"
    /\ chatHistories["11"] = <<[sender |-> "31", messageId |-> "m1"],
                                [sender |-> "31", messageId |-> "m2"]>>

(***************************************************************************)
(* Properties of a session with its handlers.                              *)
(***************************************************************************)

\* C21: a failure while handling one admitted event - a throw before the
\* gate, a throw before the await, a dispatch that rejects, a throw behind
\* the dispatch - is confined to
\* that event: the step in which it happens changes no connection, timer,
\* sessionId, attempt counter or promise of the session and no other call in
\* flight, lastSequence is what the frame set it to, and an addressed event
\* that arrives next is handed over and its dispatch started.
C21_DispatchFailureIsolated ==
    [][/\ \A key \in TaskKeys, ok \in BOOLEAN :
            DispatchDone(key, ok, FALSE) =>
                /\ pc' = pc /\ aborted' = aborted
                /\ conns' = conns /\ nconn' = nconn
                /\ sn' = sn /\ sessionId' = sessionId
                /\ reconnectAttempt' = reconnectAttempt /\ waitMs' = waitMs
                /\ tasks'[key] = tasks[key] - 1
                /\ \A k \in TaskKeys \ {key} : tasks'[k] = tasks[k]
       /\ \A i \in 1..MaxConn : \A f \in EventFrames(SessionEvents) :
            (/\ out'.result \in {"rejected", "failed"}
             /\ dispatchOut' = <<f[3]>>
             /\ RecvEventHandled(i, f[1], f[2], f[3],
                                 IF out'.result = "rejected" THEN -1
                                 ELSE Len(out'.calls))) =>
                /\ pc' = pc /\ aborted' = aborted
                /\ conns' = conns /\ nconn' = nconn
                /\ sn' = (IF f[1] THEN f[2] ELSE sn)
                /\ sessionId' = sessionId
                /\ reconnectAttempt' = reconnectAttempt /\ waitMs' = waitMs
                /\ tasks' = tasks
                /\ chatHistories' = chatHistories
       /\ \A i \in 1..MaxConn : \A f \in EventFrames(SessionEvents) :
            (/\ out.result \in {"rejected", "failed", "dispatchFailed"}
             /\ botId \in f[3].mention
             /\ RecvEventHandled(i, f[1], f[2], f[3], 3)) =>
                /\ dispatchOut' = <<f[3]>>
                /\ out'.result = "dispatching"
                /\ tasks'["11"] = tasks["11"] + 1]_vars

\* C21 witness: of two dispatches in flight one was rejected; the other is
\* still pending and the connection is live as before, lastSequence at MaxSn.
C21_Witness ==
    /\ out.result = "dispatchFailed"
    /\ InFlight = 1
    /\ Live(conns[1])
    /\ pc = "connected"
    /\ sessionId = "s1"
    /\ sn = MaxSn

\* C22: while calls of handleKookMessage await their dispatch, every frame
\* and every heartbeat that could be handled with no call pending can be
\* handled at once, and is handled the same way: an Event frame sets
\* lastSequence and is admitted or not, a Reconnect frame resets the session
\* and takes the connection's outcome, a heartbeat on an open socket sends
\* a Ping with the current lastSequence; none of them settles a call.
C22_FramesNeverWaitForHandlers ==
    /\ [](InFlight > 0 =>
            \A i \in 1..MaxConn :
                /\ conns[i].tickers > 0 => ENABLED HeartbeatTick(i)
                /\ (conns[i].wired /\ conns[i].ws = "open") =>
                      /\ ENABLED RecvReconnect(i)
                      /\ ENABLED RecvPong(i)
                      /\ \A f \in EventFrames(SessionEvents) :
                            ENABLED RecvEventHandled(i, f[1], f[2], f[3], -1)
                      /\ ENABLED RecvEventHandled(
                              i, TRUE, MaxSn,
                              KookEvent("GROUP", 1, "11", "31", "m1", "21", {}), 3))
    /\ [][InFlight > 0 =>
            \A i \in 1..MaxConn :
                /\ (conns[i].ws = "open" /\ HeartbeatTick(i)) =>
                      pingOut' = sn /\ tasks' = tasks
                /\ RecvReconnect(i) =>
                      /\ sn' = 0 /\ sessionId' = ""
                      /\ conns'[i].ws \notin {"connecting", "open"}
                      /\ conns'[i].resolved
                      /\ conns'[i].heartbeatTimer = 0
                      /\ tasks' = tasks
                /\ \A f \in EventFrames(SessionEvents) :
                      (/\ dispatchOut' \in {<<>>, <<f[3]>>}
                       /\ pingOut' = -1
                       /\ RecvEventHandled(i, f[1], f[2], f[3],
                                           IF out'.result = "rejected" THEN -1
                                           ELSE Len(out'.calls))) =>
                          /\ sn' = (IF f[1] THEN f[2] ELSE sn)
                          /\ (dispatchOut' = <<f[3]>>) <=>
                                ~(botId # "undefined" /\ f[3].author_id = botId)
                          /\ \A k \in TaskKeys : tasks'[k] >= tasks[k]]_vars

\* C22 witness: since the dispatch in flight started, a later message was
\* admitted and buffered, and the heartbeat that followed sent a Ping with
\* lastSequence at MaxSn.
C22_Witness ==
    /\ InFlight > 0
    /\ out.result = "recorded"
    /\ Live(conns[1])
    /\ sn = MaxSn
    /\ pingOut = MaxSn

(***************************************************************************)
(* Properties of sendMessageKook.                                          *)
(***************************************************************************)

\* C23: whenever sendMessageKook has sent to a target of the form <id>,
\* user:<id>, kook:user:<id> or kook:channel:<id>, the target_id (or the
\* chat_code) of its one REST call is <id>, and so is the chatId it returns.
C23_TargetIsRawId ==
    (/\ sendOut.result = "sent"
     /\ ~sendOut.to[1].lead /\ ~sendOut.to[1].trail
     /\ \E id \in TargetIds \ {""} :
           sendOut.to[1].segs \in {<<id>>, <<"user", id>>, <<"kook", "user", id>>,
                                   <<"kook", "channel", id>>}) =>
        LET segs == sendOut.to[1].segs
            id == segs[Len(segs)]
        IN  /\ Len(sendOut.calls) = 1
            /\ {sendOut.calls[1].target_id, sendOut.calls[1].chat_code}
                  = {None, Some(id)}
            /\ sendOut.chatId = Some(id)

(***************************************************************************)
(* Properties of the connection outcomes.                                  *)
(***************************************************************************)

\* C24: the close event of a socket with listeners, delivered before the
\* abort signal fired and before an outcome was taken for its connection,
\* schedules one reconnect (the connection's first, with the next attempt
\* number and its wait); delivered after the signal fired it leaves the
\* connection resolved and schedules nothing.
C24_CloseSchedulesOneReconnect ==
    [][\A i \in 1..MaxConn :
          (conns[i].wired /\ conns[i].ws # "closed" /\ conns'[i].ws = "closed") =>
              /\ (~aborted /\ ~conns[i].resolved) =>
                    /\ conns[i].sched = 0 /\ conns'[i].sched = 1
                    /\ conns'[i].resolved
                    /\ pc' = "backoff"
                    /\ reconnectAttempt' = reconnectAttempt + 1
                    /\ waitMs' = Min(2000 * 2^reconnectAttempt, 60000)
                    /\ \A j \in 1..MaxConn \ {i} : conns'[j] = conns[j]
              /\ aborted =>
                    /\ conns'[i].resolved
                    /\ \A j \in 1..MaxConn : conns'[j].sched = conns[j].sched
                    /\ reconnectAttempt' = reconnectAttempt
                    /\ waitMs' = waitMs
                    /\ pc' # "backoff" \/ pc = "backoff"
                    /\ pc' \in {pc, "resolved"}]_vars

\* C24 witness: the second socket of the run closed before any cancellation,
\* in a session that had received a Hello; its close event scheduled the
\* connection's one reconnect.
C24_Witness ==
    /\ ~aborted
    /\ nconn = 2
    /\ conns[2].ws = "closed" /\ conns[2].sched = 1
    /\ sessionId # ""
    /\ lastExit = "close"
    /\ pc = "backoff"

\* C25: a connection takes at most one outcome, whatever callbacks run for
\* it and however often: once its resolved flag is set it stays set and the
\* connection schedules nothing more; the step that sets the flag either
\* schedules the connection's one reconnect or, on cancellation, resolves
\* the supervisor's promise; and at no time is cleanup() still to run for
\* more than one socket of the run.
C25_OneOutcomePerConnection ==
    /\ [](/\ \A i \in 1..MaxConn :
               /\ conns[i].sched <= 1
               /\ conns[i].sched = 1 => conns[i].resolved
          /\ Cardinality({i \in 1..MaxConn :
                             conns[i].ws \in {"connecting", "open"}}) <= 1)
    /\ [][\A i \in 1..MaxConn :
            /\ conns[i].resolved =>
                  /\ conns'[i].resolved
                  /\ conns'[i].sched = conns[i].sched
            /\ (~conns[i].resolved /\ conns'[i].resolved) =>
                  \/ /\ conns'[i].sched = 1
                     /\ ~aborted'
                     /\ pc' = "backoff"
                     /\ reconnectAttempt' = reconnectAttempt + 1
                  \/ /\ conns'[i].sched = 0
                     /\ aborted'
                     /\ pc' = "resolved"
                     /\ reconnectAttempt' = reconnectAttempt]_vars

\* C25 witness: a Reconnect frame took the outcome of the first connection;
\* the abort signal and the socket's close event came afterwards, and the
\* connection still has its one scheduled reconnect and nothing else.
C25_Witness ==
    /\ aborted
    /\ nconn = 1
    /\ conns[1].ws = "closed"
    /\ conns[1].resolved /\ conns[1].sched = 1
    /\ lastExit = "reconnect"
    /\ pc = "backoff"

\* C26: from cleanup() of a connection to the close event of its socket no
\* frame is handled on that socket: unless another socket of the run is
\* open, lastSequence and sessionId stay as they are and no event is handed
\* over, and the socket gets no heartbeat interval; so after a Reconnect
\* frame lastSequence stays 0 until a new connection receives an Event frame.
C26_NoEffectAfterTeardown ==
    [][\A i \in 1..MaxConn :
          (conns[i].wired /\ conns[i].resolved /\ conns[i].ws # "closed") =>
              /\ conns'[i].tickers <= conns[i].tickers
              /\ conns'[i].heartbeatTimer = 0
              /\ (\A j \in 1..MaxConn \ {i} : conns[j].ws # "open") =>
                    /\ sn' = sn
                    /\ sessionId' = sessionId
                    /\ dispatchOut' = <<>>
                    /\ tasks' = tasks \/ InFlight' < InFlight]_vars

\* C26 witness: a Reconnect frame tore the first connection down; its socket
\* is still closing, lastSequence and sessionId were reset and no other
\* connection has been made.
C26_Witness ==
    /\ nconn = 1
    /\ conns[1].ws = "closing" /\ conns[1].resolved
    /\ lastExit = "reconnect"
    /\ sn = 0 /\ sessionId = ""
    /\ pc = "fetchGateway"
    /\ ~aborted

(***************************************************************************)
(* Properties of the pending history under concurrent dispatches.          *)
(***************************************************************************)

\* C27: a message buffered by the latest call of handleKookMessage is not
\* removed by the step that follows, in which no dispatch can have taken it
\* into its context: the buffer it went into is not emptied, not even by a
\* dispatch of the channel that was in flight when it arrived and settles
\* now.
C27_EntriesLeaveOnlyWhenUsed ==
    [][(/\ dispatchOut # <<>>
        /\ out.result = "recorded"
        /\ chatHistories[dispatchOut[1].target_id] # <<>>) =>
            chatHistories'[dispatchOut[1].target_id] # <<>>]_vars

\* C28: when a call has started a dispatch with buffered entries in its
\* body and the next step starts another dispatch for the same channel, the
\* body of the second holds none of those entries: it is the message alone.
C28_EntryPrependedOnce ==
    [][(/\ dispatchOut # <<>>
        /\ out.result = "dispatching"
        /\ Len(out.body) > 1
        /\ dispatchOut' # <<>>
        /\ dispatchOut'[1].target_id = dispatchOut[1].target_id
        /\ tasks'[dispatchOut[1].target_id]
              = tasks[dispatchOut[1].target_id] + 1) =>
            Len(out'.body) = 1]_vars

\* C29: a group message that passed the group check and the group setting
\* is buffered exactly when a mention is required and the bot's id is not in
\* its mention list, and goes on to the dispatch otherwise; whether a mention
\* is required is the requireMention of the channel's group entry, else of
\* the guild's group entry when the channel has no entry, else the
\* account-level requireMention, else true.
C29_RequireMentionChain ==
    [][\A e \in BotEvents :
          LET byChannel == cfg.groups[e.target_id]
              byGuild == cfg.groups[IF e.guild_id = NoGuild THEN "" ELSE e.guild_id]
              group == IF byChannel # <<>> THEN byChannel ELSE byGuild
              required ==
                  IF group # <<>> /\ group[1].requireMention # <<>>
                  THEN group[1].requireMention[1]
                  ELSE IF cfg.requireMention # <<>> THEN cfg.requireMention[1]
                  ELSE TRUE
              addressed == botId # "undefined" /\ botId \in e.mention
          IN  (/\ e.channel_type = "GROUP"
               /\ ~(group # <<>> /\ group[1].enabled = <<FALSE>>)
               /\ HandleKookMessage(e, Len(out'.calls))
               /\ isGroupAllowed(Opt(cfg.groupPolicy, "allowlist"),
                                 Opt(cfg.groupAllowFrom, <<>>),
                                 GuildOrEmpty(e), e.target_id)) =>
                  /\ (required /\ ~addressed) => out'.result = "recorded"
                  /\ ~(required /\ ~addressed) =>
                        out'.result \in {"dispatching", "failed"}]_vars

\* C29 witness: the guild's group entry asks for a mention while the
\* account-level requireMention is false, and a message of channel 11 that
\* mentions nobody was buffered.
C29_Witness ==
    /\ cfg.groups["11"] = <<>>
    /\ cfg.groups["21"] # <<>>
    /\ cfg.groups["21"][1].requireMention = <<TRUE>>
    /\ cfg.requireMention = <<FALSE>>
    /\ out.result = "recorded"
    /\ chatHistories["11"] # <<>>

\* C30: what resolveRequireMention answers for a group id is the
\* requireMention handleKookMessage computes for every group event of that
\* channel, under the same configuration.
C30_PluginAgreesWithHandler ==
    \A e \in BotEvents :
        (e.channel_type = "GROUP" /\ mentionOut.groupId = <<e.target_id>>) =>
            mentionOut.result = <<RequireMention(cfg, e)>>

\* C31: once a Reconnect frame has ended a connection and the connection
\* that followed has received its Hello and holds a session id, the run has
\* probed the bot's identity a second time, for the fresh session.
C31_ProbePerFreshSession ==
    (/\ lastExit = "reconnect"
     /\ nconn > 1
     /\ Live(conns[nconn])
     /\ sessionId \in SessionIds) => probes > 1

\* C34: a frame whose text is not JSON or whose handling throws leaves the
\* session as it was: lastSequence, sessionId, every connection's socket
\* state and timers and the supervisor's position are unchanged, and no
\* event is handed to handleKookMessage.
C34_MalformedFrameHarmless ==
    [][\A i \in 1..MaxConn :
          (\/ RecvMalformed(i)
           \/ RecvHelloNoData(i)
           \/ \E hasSn \in BOOLEAN, n \in 0..MaxSn : RecvEventNoData(i, hasSn, n)) =>
              /\ sn' = sn
              /\ sessionId' = sessionId
              /\ conns' = conns
              /\ pc' = pc
              /\ dispatchOut' = <<>>]_vars

\* C32 as stated: in a run whose probe failed, no group message handed to
\* handleKookMessage in a channel where a mention is required is dispatched,
\* whatever it mentions: no collaborator is called and no dispatch starts;
\* and every such message that passed the group check becomes the last entry
\* of its channel's buffer (when the history is on).
C32_UnknownBotNeverDispatches ==
    [][(/\ botId = "undefined"
        /\ dispatchOut' # <<>>
        /\ dispatchOut'[1].channel_type = "GROUP"
        /\ LET e == dispatchOut'[1]
               byChannel == cfg.groups[e.target_id]
               byGuild == cfg.groups[IF e.guild_id = NoGuild THEN "" ELSE e.guild_id]
               group == IF byChannel # <<>> THEN byChannel ELSE byGuild
           IN  IF group # <<>> /\ group[1].requireMention # <<>>
               THEN group[1].requireMention[1]
               ELSE IF cfg.requireMention # <<>> THEN cfg.requireMention[1]
               ELSE TRUE) =>
           LET e == dispatchOut'[1]
               new == chatHistories'[e.target_id]
           IN  /\ out'.result \notin {"dispatching", "failed"}
               /\ out'.calls = <<>>
               /\ tasks' = tasks
               /\ isGroupAllowed(Opt(cfg.groupPolicy, "allowlist"),
                                 Opt(cfg.groupAllowFrom, <<>>),
                                 GuildOrEmpty(e), e.target_id) =>
                     /\ out'.result = "recorded"
                     /\ cfg.historyLimit > 0 =>
                           new # <<>> /\ new[Len(new)] = Entry(e)]_vars

\* C32 amended: the same, unless the group setting of the message's channel
\* (or, when the channel has none, of its guild) has enabled = false: then
\* a message that passed the group check is dropped, neither buffered nor
\* dispatched.
C32_UnknownBotNeverDispatchesAmended ==
    [][(/\ botId = "undefined"
        /\ dispatchOut' # <<>>
        /\ dispatchOut'[1].channel_type = "GROUP"
        /\ LET e == dispatchOut'[1]
               byChannel == cfg.groups[e.target_id]
               byGuild == cfg.groups[IF e.guild_id = NoGuild THEN "" ELSE e.guild_id]
               group == IF byChannel # <<>> THEN byChannel ELSE byGuild
           IN  IF group # <<>> /\ group[1].requireMention # <<>>
               THEN group[1].requireMention[1]
               ELSE IF cfg.requireMention # <<>> THEN cfg.requireMention[1]
               ELSE TRUE) =>
           LET e == dispatchOut'[1]
               byChannel == cfg.groups[e.target_id]
               byGuild == cfg.groups[IF e.guild_id = NoGuild THEN "" ELSE e.guild_id]
               group == IF byChannel # <<>> THEN byChannel ELSE byGuild
               off == group # <<>> /\ group[1].enabled = <<FALSE>>
               new == chatHistories'[e.target_id]
           IN  /\ out'.result \notin {"dispatching", "failed"}
               /\ out'.calls = <<>>
               /\ tasks' = tasks
               /\ isGroupAllowed(Opt(cfg.groupPolicy, "allowlist"),
                                 Opt(cfg.groupAllowFrom, <<>>),
                                 GuildOrEmpty(e), e.target_id) =>
                     IF off
                     THEN /\ out'.result = "groupDisabled"
                          /\ chatHistories' = chatHistories
                     ELSE /\ out'.result = "recorded"
                          /\ cfg.historyLimit > 0 =>
                                new # <<>> /\ new[Len(new)] = Entry(e)]_vars

\* C32 witness: the probe failed, the first connection became live all the
\* same, and a message of channel 11 that mentions the bot was buffered.
C32_Witness ==
    /\ botId = "undefined"
    /\ probes = 1
    /\ Live(conns[1])
    /\ dispatchOut # <<>>
    /\ dispatchOut[1].mention = {"bot"}
    /\ out.result = "recorded"
    /\ chatHistories["11"] = <<[sender |-> "32", messageId |-> "m1"]>>

\* C33: every reply that deliver has handed to sendMessageKook for the
\* dispatcher of a direct message goes through the direct-message endpoint
\* to the sender of that message: the call's target_id is the event's
\* author_id, whatever its target_id is.
C33_DmReplyGoesToSender ==
    \A r \in BagToSet(sends) : \A e \in ReplyEvents :
        (/\ r.kind = "deliver"
         /\ e.channel_type = "PERSON"
         /\ r.dispatcher = <<Dispatcher(e)>>) =>
            /\ r.isDm
            /\ r.call.api = "sendDirectMessage"
            /\ r.call.target_id = <<e.author_id>>

\* C35: of the texts one call of sendMedia hands to sendMessageKook, at
\* most one is the call's text and at most one is its media URL.
C35_MediaSentOnce ==
    /\ Cardinality({k \in DOMAIN mediaOut.sent :
                        mediaOut.text = <<mediaOut.sent[k]>>}) <= 1
    /\ Cardinality({k \in DOMAIN mediaOut.sent :
                        mediaOut.mediaUrl = <<mediaOut.sent[k]>>}) <= 1

====
